---- MODULE Spec2Model ----
(***************************************************************************)
(* Model of the hansard-tracker alert engine (src/app/alerts.py) together  *)
(* with the topic filter it calls (src/app/llm.py) and the way the alerts  *)
(* page drives it (src/pages/2_Alerts.py).                                 *)
(*                                                                         *)
(* The alert store is the JSON file data/alerts.json; every operation      *)
(* loads the whole list, changes its copy and writes the whole list back.  *)
(* Timestamps are integers read from a non-decreasing clock.               *)
(***************************************************************************)
EXTENDS Integers, Sequences, FiniteSets, TLC

(* ---------------------------------------------------------------------- *)
(* Bounds of the model                                                     *)
(* ---------------------------------------------------------------------- *)
MaxAlerts == 2

MaxClock == 2

(* clock ticks per calendar day: a timestamp t lies on day t \div TicksPerDay *)
TicksPerDay == 2

Members == {1, 2}

Emails == {"a@x", "b@x"}

Housing == <<"housing">>

NoTopics == <<>>

(* the topics argument of create_alert: None, [] or a list of topics *)
TopicArgs ==
  { [some |-> FALSE, list |-> NoTopics],
    [some |-> TRUE, list |-> NoTopics],
    [some |-> TRUE, list |-> Housing] }

(* ---------------------------------------------------------------------- *)
(* Contributions returned by the Hansard API                               *)
(* ---------------------------------------------------------------------- *)
Contribution(cid) == [contribution_id |-> cid]

C1st == Contribution("c1")

C2nd == Contribution("c2")

(* results of one get_latest_contributions call: it raises, or it returns  *)
(* a list of contributions with distinct ids                               *)
FetchResults ==
  { [ok |-> FALSE, items |-> <<>>],
    [ok |-> TRUE, items |-> <<>>],
    [ok |-> TRUE, items |-> <<C1st, C2nd>>] }

Range(s) == { s[i] : i \in 1..Len(s) }

(* ---------------------------------------------------------------------- *)
(* The store file                                                          *)
(* ---------------------------------------------------------------------- *)
NoFile == [exists |-> FALSE, content |-> <<>>]

load_alerts(f) == IF f.exists THEN f.content ELSE <<>>

save_alerts(alerts) == [exists |-> TRUE, content |-> alerts]

(* ---------------------------------------------------------------------- *)
(* Alert records and the store operations                                  *)
(* ---------------------------------------------------------------------- *)
MemberName(member_id) == IF member_id = 1 THEN "Ann" ELSE "Bob"

(* the least position of the set, 0 if the set is empty: where a loop over *)
(* the list that returns at its first match stops                          *)
FirstOf(positions) ==
  IF positions = {} THEN 0
  ELSE CHOOSE i \in positions : \A j \in positions : i <= j

FirstWithPair(alerts, member_id, email) ==
  FirstOf({ i \in 1..Len(alerts) :
              alerts[i].member_id = member_id /\ alerts[i].email = email })

FirstWithId(alerts, alert_id) ==
  FirstOf({ i \in 1..Len(alerts) : alerts[i].id = alert_id })

(* a record whose id is one more than the greatest stored id *)
NewAlert_above_greatest_id(alerts, member_id, member_name, email, topics, now1, now2) ==
  [ id           |-> IF alerts = <<>> THEN 1
                     ELSE 1 + (CHOOSE n \in { alerts[i].id : i \in 1..Len(alerts) } :
                                 \A i \in 1..Len(alerts) : alerts[i].id <= n),
    member_id    |-> member_id,
    member_name  |-> member_name,
    email        |-> email,
    topics       |-> IF topics.some THEN topics.list ELSE NoTopics,
    created_at   |-> now1,
    last_checked |-> now2,
    active       |-> TRUE ]

NewAlert(alerts, member_id, member_name, email, topics, now1, now2) ==
  [ id           |-> Len(alerts) + 1,
    member_id    |-> member_id,
    member_name  |-> member_name,
    email        |-> email,
    topics       |-> IF topics.some THEN topics.list ELSE NoTopics,
    created_at   |-> now1,
    last_checked |-> now2,
    active       |-> TRUE ]

(* create_alert without the duplicate check: every call appends *)
create_alert_always_appends(f, member_id, member_name, email, topics, now1, now2) ==
  [file |-> save_alerts(Append(load_alerts(f),
              NewAlert(load_alerts(f), member_id, member_name, email, topics,
                       now1, now2))),
   isnew |-> TRUE]

(* create_alert that writes "topics or []" to the duplicate also for None *)
create_alert_none_clears(f, member_id, member_name, email, topics, now1, now2) ==
  LET alerts == load_alerts(f)
      k == FirstWithPair(alerts, member_id, email)
  IN  IF k > 0
      THEN [file |-> save_alerts([alerts EXCEPT ![k].topics =
                       IF topics.some THEN topics.list ELSE NoTopics]),
            isnew |-> FALSE]
      ELSE [file |-> save_alerts(Append(alerts,
                       NewAlert(alerts, member_id, member_name, email, topics,
                                now1, now2))),
            isnew |-> TRUE]

(* create_alert on the store file f; now1 and now2 are the two clock reads *)
(* of a new record. Result: the file afterwards and whether a record was   *)
(* added.                                                                  *)
create_alert(f, member_id, member_name, email, topics, now1, now2) ==
  LET alerts == load_alerts(f)
      k == FirstWithPair(alerts, member_id, email)
  IN  IF k > 0
      THEN IF topics.some
           THEN [file |-> save_alerts([alerts EXCEPT ![k].topics = topics.list]),
                 isnew |-> FALSE]
           ELSE [file |-> f, isnew |-> FALSE]
      ELSE [file |-> save_alerts(Append(alerts,
                       NewAlert(alerts, member_id, member_name, email, topics,
                                now1, now2))),
            isnew |-> TRUE]

(* [a for a in alerts if a["id"] != alert_id] *)
WithoutId(alerts, alert_id) ==
  LET Other(a) == a.id # alert_id
  IN  SelectSeq(alerts, Other)

delete_alert(f, alert_id) ==
  LET alerts == load_alerts(f)
      new_alerts == WithoutId(alerts, alert_id)
  IN  IF Len(new_alerts) = Len(alerts)
      THEN [file |-> f, ret |-> FALSE]
      ELSE [file |-> save_alerts(new_alerts), ret |-> TRUE]

(* pos: the position of the alert that was flipped and returned, 0 for None *)
toggle_alert(f, alert_id) ==
  LET alerts == load_alerts(f)
      k == FirstWithId(alerts, alert_id)
  IN  IF k > 0
      THEN [file |-> save_alerts([alerts EXCEPT ![k].active = ~alerts[k].active]),
            pos |-> k]
      ELSE [file |-> f, pos |-> 0]

(* ---------------------------------------------------------------------- *)
(* The topic filter (src/app/llm.py)                                       *)
(* ---------------------------------------------------------------------- *)
(* One item of the "matches" list of a model response: speech_index may be *)
(* missing (has_index FALSE).                                              *)
Item(i) == [has_index |-> TRUE, speech_index |-> i]

(* What the model call gives: it raises, its text does not parse to a JSON *)
(* object, or it parses to an object with a list of matches.               *)
LLMRaise == [kind |-> "raise", matches |-> <<>>]

LLMMalformed == [kind |-> "malformed", matches |-> <<>>]

LLMJson(items) == [kind |-> "json", matches |-> items]

(* an item without the key speech_index *)
NoIndexItem == [has_index |-> FALSE, speech_index |-> 0]

(* a list of matches with a negative index, a missing index and a good one *)
LLMStrayIndexes == LLMJson(<<Item(-1), NoIndexItem, Item(0)>>)

(* a list of matches that names the same speech twice *)
LLMSameTwice == LLMJson(<<Item(0), Item(0)>>)

LLMResponses ==
  { LLMRaise, LLMJson(<<>>), LLMJson(<<Item(0)>>), LLMJson(<<Item(1)>>),
    LLMJson(<<Item(0), Item(1)>>) }

(* the loop over the matches with no test for a negative index: a list    *)
(* subscript below 0 counts from the end of the list                       *)
MatchOutput_negative_from_end(matches, contributions) ==
  LET InRange(item) ==
        /\ item.has_index
        /\ item.speech_index >= 0 - Len(contributions)
        /\ item.speech_index < Len(contributions)
      Entry(item) ==
        [contribution_id |->
           contributions[IF item.speech_index >= 0 THEN item.speech_index + 1
                         ELSE Len(contributions) + item.speech_index + 1].contribution_id]
  IN  [ k \in 1..Len(SelectSeq(matches, InRange)) |->
          Entry(SelectSeq(matches, InRange)[k]) ]

(* the loop over the matches: items whose index is missing or outside the  *)
(* contribution list are skipped                                           *)
MatchOutput(matches, contributions) ==
  LET InRange(item) ==
        /\ item.has_index
        /\ item.speech_index >= 0
        /\ item.speech_index < Len(contributions)
      Entry(item) ==
        [contribution_id |-> contributions[item.speech_index + 1].contribution_id]
  IN  [ k \in 1..Len(SelectSeq(matches, InRange)) |->
          Entry(SelectSeq(matches, InRange)[k]) ]

(* speeches_text of a prompt: the listed contributions under the numbers   *)
(* of enumerate, "--- SPEECH i ---" for i = 0, 1, ...                      *)
SpeechesText(listed) ==
  [ k \in 1..Len(listed) |->
      [speech |-> k - 1, contribution_id |-> listed[k].contribution_id] ]

(* A response text that starts with a code fence and has no line break:   *)
(* split("\n", 1)[1] raises IndexError.                                    *)
LLMOneLineFence == [kind |-> "one_line_fence", matches |-> <<>>]

(* A response text that parses to a JSON object whose list of matches is   *)
(* no list of objects with integer or missing speech_index (null, a        *)
(* number, a list of numbers, an index given as a string): the loop over   *)
(* the matches raises TypeError or AttributeError.                         *)
LLMBadShape == [kind |-> "bad_shape", matches |-> <<>>]

(* Parsing a response text: strip, drop the code fence, json.loads,        *)
(* data.get. raised: an exception that the except clause does not name;    *)
(* a failure it names gives the empty list. usable: the loop over the      *)
(* matches runs through.                                                   *)
parse_response(resp) ==
  IF resp.kind = "one_line_fence"
  THEN [raised |-> TRUE, usable |-> FALSE, matches |-> <<>>]
  ELSE IF resp.kind = "malformed"
  THEN [raised |-> FALSE, usable |-> TRUE, matches |-> <<>>]
  ELSE IF resp.kind = "bad_shape"
  THEN [raised |-> FALSE, usable |-> FALSE, matches |-> <<>>]
  ELSE [raised |-> FALSE, usable |-> TRUE, matches |-> resp.matches]

(* filter_contributions_by_topics that obtains the client first *)
filter_contributions_by_topics_client_first(contributions, topics, has_key, resp) ==
  IF ~has_key
  THEN [raised |-> TRUE, client |-> FALSE, called |-> FALSE,
        prompts |-> <<>>, out |-> <<>>]
  ELSE IF contributions = <<>> \/ topics = <<>>
  THEN [raised |-> FALSE, client |-> TRUE, called |-> FALSE,
        prompts |-> <<>>, out |-> <<>>]
  ELSE IF resp.kind = "raise"
  THEN [raised |-> TRUE, client |-> TRUE, called |-> TRUE,
        prompts |-> <<SpeechesText(contributions)>>, out |-> <<>>]
  ELSE IF parse_response(resp).raised \/ ~parse_response(resp).usable
  THEN [raised |-> TRUE, client |-> TRUE, called |-> TRUE,
        prompts |-> <<SpeechesText(contributions)>>, out |-> <<>>]
  ELSE [raised |-> FALSE, client |-> TRUE, called |-> TRUE,
        prompts |-> <<SpeechesText(contributions)>>,
        out |-> MatchOutput(parse_response(resp).matches, contributions)]

(* raised: an exception leaves the function; client: genai.Client was      *)
(* constructed; called: the model was called; prompts: the speeches_text   *)
(* of each prompt submitted                                                *)
filter_contributions_by_topics(contributions, topics, has_key, resp) ==
  IF contributions = <<>> \/ topics = <<>>
  THEN [raised |-> FALSE, client |-> FALSE, called |-> FALSE,
        prompts |-> <<>>, out |-> <<>>]
  ELSE IF ~has_key
  THEN [raised |-> TRUE, client |-> FALSE, called |-> FALSE,
        prompts |-> <<>>, out |-> <<>>]
  ELSE IF resp.kind = "raise"
  THEN [raised |-> TRUE, client |-> TRUE, called |-> TRUE,
        prompts |-> <<SpeechesText(contributions)>>, out |-> <<>>]
  ELSE IF parse_response(resp).raised \/ ~parse_response(resp).usable
  THEN [raised |-> TRUE, client |-> TRUE, called |-> TRUE,
        prompts |-> <<SpeechesText(contributions)>>, out |-> <<>>]
  ELSE [raised |-> FALSE, client |-> TRUE, called |-> TRUE,
        prompts |-> <<SpeechesText(contributions)>>,
        out |-> MatchOutput(parse_response(resp).matches, contributions)]


(* ---------------------------------------------------------------------- *)
(* The model call with retry (src/app/llm.py, _call_gemini)                *)
(* ---------------------------------------------------------------------- *)
MaxRetries == 2

BackoffStep == 20

(* what one generate_content attempt gives: a text, an exception whose     *)
(* text contains "429", or another exception                               *)
AttemptOutcomes ==
  { [kind |-> "ok", text |-> "t1"], [kind |-> "ok", text |-> "t2"],
    [kind |-> "429", text |-> ""], [kind |-> "error", text |-> ""] }

(* _call_gemini with the same wait before every retry *)
call_gemini_fixed_wait(outcomes, max_retries) ==
  LET Ends(k) == outcomes[k].kind # "429" \/ ~(k - 1 < max_retries)
      n == CHOOSE k \in 1..(max_retries + 1) :
             Ends(k) /\ \A j \in 1..(k - 1) : ~Ends(j)
  IN  [ attempts |-> n,
        sleeps   |-> [k \in 1..(n - 1) |-> BackoffStep],
        raised   |-> outcomes[n].kind # "ok",
        error    |-> IF outcomes[n].kind # "ok" THEN outcomes[n].kind ELSE "",
        text     |-> outcomes[n].text ]

(* _call_gemini that retries after every exception *)
call_gemini_retries_any(outcomes, max_retries) ==
  LET Ends(k) == outcomes[k].kind = "ok" \/ ~(k - 1 < max_retries)
      n == CHOOSE k \in 1..(max_retries + 1) :
             Ends(k) /\ \A j \in 1..(k - 1) : ~Ends(j)
  IN  [ attempts |-> n,
        sleeps   |-> [k \in 1..(n - 1) |-> BackoffStep * k],
        raised   |-> outcomes[n].kind # "ok",
        error    |-> IF outcomes[n].kind # "ok" THEN outcomes[n].kind ELSE "",
        text     |-> outcomes[n].text ]

(* _call_gemini; outcomes[k] is what the k-th attempt gives if it is made. *)
(* The loop ends at the first attempt that returns, or that fails with a   *)
(* text without "429", or that is attempt number max_retries + 1.          *)
(* sleeps: the waits, in seconds, in the order they are made.              *)
call_gemini(outcomes, max_retries) ==
  LET Ends(k) == outcomes[k].kind # "429" \/ ~(k - 1 < max_retries)
      n == CHOOSE k \in 1..(max_retries + 1) :
             Ends(k) /\ \A j \in 1..(k - 1) : ~Ends(j)
  IN  [ attempts |-> n,
        sleeps   |-> [k \in 1..(n - 1) |-> BackoffStep * k],
        raised   |-> outcomes[n].kind # "ok",
        error    |-> IF outcomes[n].kind # "ok" THEN outcomes[n].kind ELSE "",
        text     |-> outcomes[n].text ]

(* ---------------------------------------------------------------------- *)
(* rank_contributions (src/app/llm.py)                                     *)
(* ---------------------------------------------------------------------- *)
(* _BATCH_SIZE, the speeches per prompt: 80 in the source, scaled down *)
BATCH_SIZE == 2

MaxResults == 2

(* what the model call of one batch gives *)
RankResponses ==
  { LLMRaise, LLMMalformed, LLMOneLineFence, LLMBadShape, LLMJson(<<>>),
    LLMJson(<<Item(0)>>), LLMJson(<<Item(1), Item(0)>>), LLMJson(<<Item(2)>>),
    LLMStrayIndexes, LLMSameTwice }

(* range(0, len(contributions), _BATCH_SIZE) *)
NumBatches(contributions) == (Len(contributions) + BATCH_SIZE - 1) \div BATCH_SIZE

(* contributions[start : start + _BATCH_SIZE] of batch b (counted from 1) *)
BatchOf(contributions, b) ==
  SubSeq(contributions, (b - 1) * BATCH_SIZE + 1,
         IF b * BATCH_SIZE < Len(contributions) THEN b * BATCH_SIZE
         ELSE Len(contributions))

(* the batch (counted from 1) whose model call or whose response makes an  *)
(* exception leave rank_contributions; 0 if there is none                  *)
FailingBatch(contributions, resps) ==
  FirstOf({ b \in 1..NumBatches(contributions) :
              \/ resps[b].kind = "raise"
              \/ parse_response(resps[b]).raised
              \/ ~parse_response(resps[b]).usable })

(* candidates that keep the index within the batch, without the offset *)
Candidates_without_offset(contributions, resps, b) ==
  LET InBatch(item) ==
        /\ item.has_index
        /\ 0 <= item.speech_index
        /\ item.speech_index < Len(BatchOf(contributions, b))
      kept == SelectSeq(parse_response(resps[b]).matches, InBatch)
  IN  [ k \in 1..Len(kept) |-> kept[k].speech_index ]

(* the candidates of batch b: the original_index of every item whose       *)
(* speech_index is present and within the batch                            *)
Candidates(contributions, resps, b) ==
  LET InBatch(item) ==
        /\ item.has_index
        /\ 0 <= item.speech_index
        /\ item.speech_index < Len(BatchOf(contributions, b))
      kept == SelectSeq(parse_response(resps[b]).matches, InBatch)
  IN  [ k \in 1..Len(kept) |-> (b - 1) * BATCH_SIZE + kept[k].speech_index ]

(* all_candidates: the candidates of the batches, batch after batch *)
AllCandidates(contributions, resps) ==
  LET places == UNION { { <<b, k>> : k \in 1..Len(Candidates(contributions, resps, b)) } :
                          b \in 1..NumBatches(contributions) }
      Earlier(p, q) == p[1] < q[1] \/ (p[1] = q[1] /\ p[2] < q[2])
      PlaceAt(i) == CHOOSE p \in places :
                      Cardinality({ q \in places : Earlier(q, p) }) = i - 1
  IN  [ i \in 1..Cardinality(places) |->
          Candidates(contributions, resps, PlaceAt(i)[1])[PlaceAt(i)[2]] ]

(* rank_contributions; resps[b] is what the model call of batch b gives.   *)
(* calls: the model calls made; prompts: the speeches_text of each.        *)
rank_contributions(contributions, has_key, resps, max_results) ==
  IF contributions = <<>>
  THEN [raised |-> FALSE, client |-> FALSE, calls |-> 0, prompts |-> <<>>,
        out |-> <<>>]
  ELSE IF ~has_key
  THEN [raised |-> TRUE, client |-> FALSE, calls |-> 0, prompts |-> <<>>,
        out |-> <<>>]
  ELSE IF FailingBatch(contributions, resps) > 0
  THEN [raised |-> TRUE, client |-> TRUE,
        calls |-> FailingBatch(contributions, resps),
        prompts |-> [ b \in 1..FailingBatch(contributions, resps) |->
                      SpeechesText(BatchOf(contributions, b)) ],
        out |-> <<>>]
  ELSE [raised |-> FALSE, client |-> TRUE, calls |-> NumBatches(contributions),
        prompts |-> [ b \in 1..NumBatches(contributions) |->
                      SpeechesText(BatchOf(contributions, b)) ],
        out |-> LET all == AllCandidates(contributions, resps)
                    n == IF max_results < Len(all) THEN max_results ELSE Len(all)
                IN  [ r \in 1..n |->
                        [rank |-> r,
                         contribution_id |->
                           contributions[all[r] + 1].contribution_id] ]]

(* ---------------------------------------------------------------------- *)
(* check_alerts                                                            *)
(* ---------------------------------------------------------------------- *)
(* [c for c in contributions if c.contribution_id in matched_ids] *)
OnlyMatched(contributions, matched) ==
  LET Hit(c) == \E k \in 1..Len(matched) :
                  matched[k].contribution_id = c.contribution_id
  IN  SelectSeq(contributions, Hit)

(* what the world does while one alert is processed: the result of the     *)
(* fetch, the outcome of the model call and whether the notification sink  *)
(* accepts the message                                                     *)
Outcomes ==
  [ fetch : FetchResults, llm : LLMResponses, send_ok : BOOLEAN ]

QuietOutcome ==
  [ fetch |-> [ok |-> TRUE, items |-> <<>>], llm |-> LLMJson(<<>>),
    send_ok |-> TRUE ]

(* last_checked.split("T")[0]: the date part of a stored timestamp *)
DatePart(timestamp) == timestamp \div TicksPerDay

(* a filter that matched something, but whose matches are not used to narrow *)
Narrowed_keeps_all(contributions, topics, has_key, fr) ==
  IF ~(topics # <<>> /\ has_key)
  THEN [filter_called |-> FALSE, filter_raised |-> FALSE, matched |-> <<>>,
        contributions |-> contributions]
  ELSE IF fr.raised
  THEN [filter_called |-> TRUE, filter_raised |-> TRUE, matched |-> <<>>,
        contributions |-> contributions]
  ELSE IF fr.out # <<>>
  THEN [filter_called |-> TRUE, filter_raised |-> FALSE, matched |-> fr.out,
        contributions |-> contributions]
  ELSE [filter_called |-> TRUE, filter_raised |-> FALSE, matched |-> <<>>,
        contributions |-> <<>>]

(* a filter failure handled like a filter that matched nothing *)
Narrowed_raise_suppresses(contributions, topics, has_key, fr) ==
  IF ~(topics # <<>> /\ has_key)
  THEN [filter_called |-> FALSE, filter_raised |-> FALSE, matched |-> <<>>,
        contributions |-> contributions]
  ELSE IF fr.raised
  THEN [filter_called |-> TRUE, filter_raised |-> TRUE, matched |-> <<>>,
        contributions |-> <<>>]
  ELSE IF fr.out # <<>>
  THEN [filter_called |-> TRUE, filter_raised |-> FALSE, matched |-> fr.out,
        contributions |-> OnlyMatched(contributions, fr.out)]
  ELSE [filter_called |-> TRUE, filter_raised |-> FALSE, matched |-> <<>>,
        contributions |-> <<>>]

(* the credential not looked at before the filter is called: without it    *)
(* the filter raises at _get_client and all contributions are kept         *)
Narrowed_calls_without_key(contributions, topics, has_key, fr) ==
  IF ~(topics # <<>>)
  THEN [filter_called |-> FALSE, filter_raised |-> FALSE, matched |-> <<>>,
        contributions |-> contributions]
  ELSE IF fr.raised
  THEN [filter_called |-> TRUE, filter_raised |-> TRUE, matched |-> <<>>,
        contributions |-> contributions]
  ELSE IF fr.out # <<>>
  THEN [filter_called |-> TRUE, filter_raised |-> FALSE, matched |-> fr.out,
        contributions |-> OnlyMatched(contributions, fr.out)]
  ELSE [filter_called |-> TRUE, filter_raised |-> FALSE, matched |-> <<>>,
        contributions |-> <<>>]

(* the contributions to notify about, after the optional topic filter, whose *)
(* result is fr                                                              *)
Narrowed(contributions, topics, has_key, fr) ==
  IF ~(topics # <<>> /\ has_key)
  THEN [filter_called |-> FALSE, filter_raised |-> FALSE, matched |-> <<>>,
        contributions |-> contributions]
  ELSE IF fr.raised
  THEN [filter_called |-> TRUE, filter_raised |-> TRUE, matched |-> <<>>,
        contributions |-> contributions]
  ELSE IF fr.out # <<>>
  THEN [filter_called |-> TRUE, filter_raised |-> FALSE, matched |-> fr.out,
        contributions |-> OnlyMatched(contributions, fr.out)]
  ELSE [filter_called |-> TRUE, filter_raised |-> FALSE, matched |-> <<>>,
        contributions |-> <<>>]

(* one message per contribution instead of one message for all of them *)
Dispatch_per_contribution(alert, contributions) ==
  [ k \in 1..Len(contributions) |->
      [to |-> alert.email, member_name |-> alert.member_name,
       contributions |-> <<contributions[k]>>] ]

(* the notifications dispatched for one alert: one call of _send_email_sync *)
(* when there is something to send                                          *)
Dispatch(alert, contributions) ==
  IF contributions # <<>>
  THEN << [to |-> alert.email, member_name |-> alert.member_name,
           contributions |-> contributions] >>
  ELSE <<>>

SkippedStep ==
  [ active |-> FALSE, fetch_called |-> FALSE, since_date |-> 0,
    fetch_ok |-> FALSE, fetched |-> <<>>,
    filter_called |-> FALSE, filter_raised |-> FALSE, matched |-> <<>>,
    mail |-> <<>>, send_ok |-> TRUE, advanced |-> FALSE, now |-> 0 ]

(* lines 240-287 for a fetch that returned: n is what is left to notify    *)
(* about; the record of what was done, and whether line 289 is reached     *)
StepAfterFetch(alert, o, n, mail, now) ==
  [ active |-> TRUE, fetch_called |-> TRUE,
    since_date |-> DatePart(alert.last_checked), fetch_ok |-> TRUE,
    fetched |-> o.fetch.items, filter_called |-> n.filter_called,
    filter_raised |-> n.filter_raised, matched |-> n.matched,
    mail |-> mail,
    send_ok |-> mail = <<>> \/ o.send_ok,
    advanced |-> mail = <<>> \/ o.send_ok,
    now |-> IF mail = <<>> \/ o.send_ok THEN now ELSE 0 ]

(* the loop body without the test of the active flag *)
check_step_ignores_active(alert, now, o, has_key) ==
  IF FALSE
  THEN SkippedStep
  ELSE IF ~o.fetch.ok
  THEN [SkippedStep EXCEPT !.active = TRUE, !.fetch_called = TRUE,
                           !.since_date = DatePart(alert.last_checked)]
  ELSE IF o.fetch.items = <<>>
  THEN StepAfterFetch(alert, o,
         [filter_called |-> FALSE, filter_raised |-> FALSE, matched |-> <<>>,
          contributions |-> <<>>], <<>>, now)
  ELSE StepAfterFetch(alert, o,
         Narrowed(o.fetch.items, alert.topics, has_key,
           filter_contributions_by_topics(o.fetch.items, alert.topics, has_key,
                                          o.llm)),
         Dispatch(alert,
           Narrowed(o.fetch.items, alert.topics, has_key,
             filter_contributions_by_topics(o.fetch.items, alert.topics, has_key,
                                            o.llm)).contributions),
         now)

(* the body of the loop of check_alerts for one alert, up to line 287: what *)
(* is fetched, filtered and dispatched; now is the time line 289 would read *)
check_step(alert, now, o, has_key) ==
  IF ~alert.active
  THEN SkippedStep
  ELSE IF ~o.fetch.ok
  THEN [SkippedStep EXCEPT !.active = TRUE, !.fetch_called = TRUE,
                           !.since_date = DatePart(alert.last_checked)]
  ELSE IF o.fetch.items = <<>>
  THEN StepAfterFetch(alert, o,
         [filter_called |-> FALSE, filter_raised |-> FALSE, matched |-> <<>>,
          contributions |-> <<>>], <<>>, now)
  ELSE StepAfterFetch(alert, o,
         Narrowed(o.fetch.items, alert.topics, has_key,
           filter_contributions_by_topics(o.fetch.items, alert.topics, has_key,
                                          o.llm)),
         Dispatch(alert,
           Narrowed(o.fetch.items, alert.topics, has_key,
             filter_contributions_by_topics(o.fetch.items, alert.topics, has_key,
                                            o.llm)).contributions),
         now)

(* the watermark moved only when a notification went out *)
check_one_advance_if_found(alert, step) ==
  IF step.advanced /\ step.mail # <<>>
  THEN [alert EXCEPT !.last_checked = step.now]
  ELSE alert

(* the watermark set to the start of the day of since_date instead of now *)
check_one_backdates(alert, step) ==
  IF step.advanced
  THEN [alert EXCEPT !.last_checked = step.since_date * TicksPerDay]
  ELSE alert

(* line 289: the alert in the loaded list after its turn in the loop *)
check_one(alert, step) ==
  IF step.advanced
  THEN [alert EXCEPT !.last_checked = step.now]
  ELSE alert

(* an outcome says nothing about what the loop body does not ask for *)
Canonical(alert, o, has_key) ==
  /\ ~alert.active => o = QuietOutcome
  /\ ~o.fetch.ok => o.llm = QuietOutcome.llm /\ o.send_ok
  /\ o.fetch.items = <<>> => o.llm = QuietOutcome.llm /\ o.send_ok
  /\ (alert.topics = <<>> \/ ~has_key) => o.llm = QuietOutcome.llm

(* a loop whose try block encloses the whole loop: the first exception ends *)
(* the run, and the alerts after it are not processed                       *)
check_loop_ends_at_exception(alerts, now, outs, has_key) ==
  [ i \in 1..Len(alerts) |->
      IF \E j \in 1..(i - 1) :
           /\ check_step(alerts[j], now, outs[j], has_key).fetch_called
           /\ ~check_step(alerts[j], now, outs[j], has_key).advanced
      THEN [SkippedStep EXCEPT !.active = alerts[i].active]
      ELSE check_step(alerts[i], now, outs[i], has_key) ]

(* the for loop of check_alerts over the loaded list: what is done for     *)
(* each alert, given what the world does for each                          *)
check_loop(alerts, now, outs, has_key) ==
  [ i \in 1..Len(alerts) |-> check_step(alerts[i], now, outs[i], has_key) ]

(* check_alerts that writes the list only when no alert of the run failed *)
check_alerts_save_needs_all(f, now, outs, has_key) ==
  LET alerts == load_alerts(f)
      steps == check_loop(alerts, now, outs, has_key)
      updated == \E i \in 1..Len(alerts) : steps[i].advanced
  IN  IF updated /\ \A i \in 1..Len(alerts) : steps[i].active => steps[i].advanced
      THEN [file |-> save_alerts([i \in 1..Len(alerts) |->
                                    check_one(alerts[i], steps[i])]),
            steps |-> steps, saved |-> TRUE]
      ELSE [file |-> f, steps |-> steps, saved |-> FALSE]

(* check_alerts on the store file f at time now: what its loop did, and   *)
(* the list written back when line 290 set updated                        *)
check_alerts(f, now, outs, has_key) ==
  LET alerts == load_alerts(f)
      steps == check_loop(alerts, now, outs, has_key)
      updated == \E i \in 1..Len(alerts) : steps[i].advanced
  IN  IF updated
      THEN [file |-> save_alerts([i \in 1..Len(alerts) |->
                                    check_one(alerts[i], steps[i])]),
            steps |-> steps, saved |-> TRUE]
      ELSE [file |-> f, steps |-> steps, saved |-> FALSE]

(* ---------------------------------------------------------------------- *)
(* The Hansard API seen by successive check_alerts runs                    *)
(* ---------------------------------------------------------------------- *)
(* check_alerts runs made one after the other *)
MaxRuns == 2

(* SittingDate of the two contributions of a member: the day of its        *)
(* sitting; a contribution is in the API from the start of that day        *)
SittingDay(c) == IF c = C1st THEN 1 ELSE 0

(* get_latest_contributions(member_id, since_date) at time now: the        *)
(* contributions whose sitting date is since_date or later, startDate      *)
(* being inclusive, in the order SittingDateDesc                           *)
LatestContributions(since_date, now) ==
  LET InWindow(c) == since_date <= SittingDay(c) /\ SittingDay(c) <= DatePart(now)
  IN  SelectSeq(<<C1st, C2nd>>, InWindow)

(* what the world does for one alert of a run at time now: the fetch fails *)
(* or gives the contributions of the window                                *)
DatedOutcomes(alert, now) ==
  { [fetch |-> f, llm |-> QuietOutcome.llm, send_ok |-> s] :
      f \in { [ok |-> FALSE, items |-> <<>>],
              [ok |-> TRUE,
               items |-> LatestContributions(DatePart(alert.last_checked), now)] },
      s \in BOOLEAN }

DatedOutcomeSeqs(alerts, now, key) ==
  { outs \in [1..Len(alerts) ->
                UNION { DatedOutcomes(alerts[i], now) : i \in 1..Len(alerts) }] :
      \A i \in 1..Len(alerts) :
        /\ outs[i] \in DatedOutcomes(alerts[i], now)
        /\ Canonical(alerts[i], outs[i], key) }

(* ---------------------------------------------------------------------- *)
(* The vector index (src/app/semantic_search.py)                           *)
(* ---------------------------------------------------------------------- *)
MaxList == 3

ContributionIds == {"a", "b", "c"}

(* the lists handed to the relevance filter: any ids in any order, the     *)
(* same id possibly more than once                                         *)
ContributionLists ==
  UNION { [1..n -> { Contribution(cid) : cid \in ContributionIds }] :
            n \in 0..MaxList }

(* a contribution with the fields that index_contributions reads *)
Speech(cid, text, debate_title) ==
  [contribution_id |-> cid, text |-> text, debate_title |-> debate_title]

(* the contribution "a" as the API gives it after a correction of the      *)
(* report: the same id, another text and another debate title              *)
Revised == Speech("a", "t2", "d2")

Speeches == { Speech(cid, "t1", "d1") : cid \in ContributionIds } \cup { Revised }

(* the lists handed to index_contributions: any contributions in any       *)
(* order, the same id possibly more than once                              *)
SpeechLists == UNION { [1..n -> Speeches] : n \in 0..MaxList }

(* the singletons of the module: _model and _chroma_client hold None (0)   *)
(* or the number of the instance; *_built counts the constructions         *)
NoSingletons ==
  [model |-> 0, model_built |-> 0, client |-> 0, client_built |-> 0]

(* get_model that constructs a model at every call *)
get_model_constructs_each_call(p) ==
  [p EXCEPT !.model = p.model_built + 1, !.model_built = p.model_built + 1]

(* get_model: the singletons after the call; the call returns their model *)
get_model(p) ==
  IF p.model = 0
  THEN [p EXCEPT !.model = p.model_built + 1, !.model_built = p.model_built + 1]
  ELSE p

(* get_chroma_client: the singletons after the call; the call returns      *)
(* their client                                                            *)
get_chroma_client(p) ==
  IF p.client = 0
  THEN [p EXCEPT !.client = p.client_built + 1, !.client_built = p.client_built + 1]
  ELSE p

(* the singletons after a function that called get_chroma_client (client)  *)
(* and then get_model (model)                                              *)
Obtained(p, client, model) ==
  IF client /\ model THEN get_model(get_chroma_client(p))
  ELSE IF client THEN get_chroma_client(p)
  ELSE IF model THEN get_model(p)
  ELSE p

(* one collection for every member, under the name of the other member *)
collection_name_shared(member_id) == <<"member", 1>>

(* _collection_name: f"member_{member_id}" *)
collection_name(member_id) == <<"member", member_id>>

(* a collection: whether it exists, and its entries by contribution id *)
NoCollection == [exists |-> FALSE, docs |-> <<>>]

EmptyCollection == [exists |-> TRUE, docs |-> <<>>]

NoIndex == [n \in { <<"member", m>> : m \in Members } |-> NoCollection]

get_or_create_collection(idx, member_id) ==
  IF idx[collection_name(member_id)].exists THEN idx
  ELSE [idx EXCEPT ![collection_name(member_id)] = EmptyCollection]

(* collection.count() *)
Count(collection) == Cardinality(DOMAIN collection.docs)

HasDuplicateIds(contributions) ==
  \E i, j \in 1..Len(contributions) :
    i < j /\ contributions[i].contribution_id = contributions[j].contribution_id

(* model.encode on one text: the vector of the text *)
Embed(text) == <<"vector of", text>>

(* the entry of one contribution in the batch given to collection.add: its *)
(* id, embedding, document and metadata                                    *)
Entry(c) ==
  [contribution_id |-> c.contribution_id,
   embedding |-> Embed(c.text),
   document |-> c.text,
   metadata |-> [debate_title |-> c.debate_title]]

(* collection.add of one batch whose ids are distinct: each id gets the    *)
(* entry of the batch                                                      *)
collection_add(collection, batch) ==
  LET ids == { batch[k].contribution_id : k \in 1..Len(batch) }
      EntryOf(cid) ==
        batch[CHOOSE k \in 1..Len(batch) :
                /\ batch[k].contribution_id = cid
                /\ \A j \in 1..Len(batch) :
                     batch[j].contribution_id = cid => k <= j]
  IN  [collection EXCEPT !.docs =
         [cid \in (DOMAIN collection.docs) \cup ids |->
            IF cid \in DOMAIN collection.docs THEN collection.docs[cid]
            ELSE EntryOf(cid)]]

(* index_contributions that embeds every contribution of the list and      *)
(* writes its entry over a stored one (collection.upsert)                   *)
index_contributions_upserts(idx, member_id, contributions, dup_raises) ==
  LET idx1 == get_or_create_collection(idx, member_id)
      name == collection_name(member_id)
      batch == [ k \in 1..Len(contributions) |-> Entry(contributions[k]) ]
      ids == { contributions[k].contribution_id : k \in 1..Len(contributions) }
      Latest(cid) ==
        batch[CHOOSE k \in 1..Len(batch) :
                /\ batch[k].contribution_id = cid
                /\ \A j \in 1..Len(batch) :
                     batch[j].contribution_id = cid => j <= k]
  IN  IF contributions = <<>>
      THEN [index |-> idx, raised |-> FALSE, ret |-> 0, client |-> FALSE,
            model |-> FALSE, encoded |-> <<>>]
      ELSE [index |-> [idx1 EXCEPT ![name].docs =
                         [cid \in (DOMAIN idx1[name].docs) \cup ids |->
                            IF cid \in ids THEN Latest(cid)
                            ELSE idx1[name].docs[cid]]],
            raised |-> FALSE,
            ret |-> Cardinality(ids \ DOMAIN idx1[name].docs),
            client |-> TRUE, model |-> TRUE,
            encoded |-> [ k \in 1..Len(contributions) |-> contributions[k].text ]]

(* index_contributions on the index idx. A batch that holds an id twice is *)
(* either rejected by collection.add (dup_raises) or stored once per id.   *)
(* raised: the exception of collection.add leaves the function. client,    *)
(* model: get_chroma_client and get_model were called. encoded: the texts  *)
(* given to model.encode.                                                  *)
index_contributions(idx, member_id, contributions, dup_raises) ==
  LET idx1 == get_or_create_collection(idx, member_id)
      name == collection_name(member_id)
      IsNew(c) == c.contribution_id \notin DOMAIN idx1[name].docs
      new_contributions == SelectSeq(contributions, IsNew)
      texts == [ k \in 1..Len(new_contributions) |-> new_contributions[k].text ]
      batch == [ k \in 1..Len(new_contributions) |-> Entry(new_contributions[k]) ]
  IN  IF contributions = <<>>
      THEN [index |-> idx, raised |-> FALSE, ret |-> 0, client |-> FALSE,
            model |-> FALSE, encoded |-> <<>>]
      ELSE IF new_contributions = <<>>
      THEN [index |-> idx1, raised |-> FALSE, ret |-> 0, client |-> TRUE,
            model |-> FALSE, encoded |-> <<>>]
      ELSE IF HasDuplicateIds(new_contributions) /\ dup_raises
      THEN [index |-> idx1, raised |-> TRUE, ret |-> 0, client |-> TRUE,
            model |-> TRUE, encoded |-> texts]
      ELSE [index |-> [idx1 EXCEPT ![name] = collection_add(@, batch)],
            raised |-> FALSE, ret |-> Len(new_contributions), client |-> TRUE,
            model |-> TRUE, encoded |-> texts]

(* the answers collection.query can give for n_results = n: n distinct ids *)
(* of the collection, nearest first                                        *)
Nearest(collection, n) ==
  { ids \in [1..n -> DOMAIN collection.docs] :
      \A i, j \in 1..n : ids[i] = ids[j] => i = j }

(* the output list of semantic_query for the ids that collection.query     *)
(* gave: the document and the metadata are those of the stored entry       *)
QueryOutput(collection, nearest) ==
  [ i \in 1..Len(nearest) |->
      [contribution_id |-> nearest[i], rank |-> i,
       text |-> collection.docs[nearest[i]].document,
       debate_title |-> collection.docs[nearest[i]].metadata.debate_title] ]

(* semantic_query that does not catch the error of get_collection *)
semantic_query_uncaught(idx, member_id, top_k, nearest) ==
  IF ~idx[collection_name(member_id)].exists
  THEN [raised |-> TRUE, queried |-> FALSE, out |-> <<>>]
  ELSE IF Count(idx[collection_name(member_id)]) = 0
  THEN [raised |-> FALSE, queried |-> FALSE, out |-> <<>>]
  ELSE [raised |-> FALSE, queried |-> TRUE,
        out |-> QueryOutput(idx[collection_name(member_id)], nearest)]

(* semantic_query; nearest is the answer of collection.query (used only    *)
(* when the collection is asked). queried: get_model and collection.query  *)
(* were called.                                                            *)
semantic_query(idx, member_id, top_k, nearest) ==
  IF ~idx[collection_name(member_id)].exists
  THEN [raised |-> FALSE, queried |-> FALSE, out |-> <<>>]
  ELSE IF Count(idx[collection_name(member_id)]) = 0
  THEN [raised |-> FALSE, queried |-> FALSE, out |-> <<>>]
  ELSE [raised |-> FALSE, queried |-> TRUE,
        out |-> QueryOutput(idx[collection_name(member_id)], nearest)]

(* n_results = min(top_k, collection.count()), 0 when nothing is asked *)
NResults(idx, member_id, top_k) ==
  IF ~idx[collection_name(member_id)].exists THEN 0
  ELSE IF top_k < Count(idx[collection_name(member_id)]) THEN top_k
  ELSE Count(idx[collection_name(member_id)])

get_index_stats(idx, member_id) ==
  IF idx[collection_name(member_id)].exists
  THEN [member_id |-> member_id,
        indexed_count |-> Count(idx[collection_name(member_id)])]
  ELSE [member_id |-> member_id, indexed_count |-> 0]

delete_member_index(idx, member_id) ==
  IF idx[collection_name(member_id)].exists
  THEN [index |-> [idx EXCEPT ![collection_name(member_id)] = NoCollection],
        ret |-> TRUE]
  ELSE [index |-> idx, ret |-> FALSE]

MaxTopK == 2

(* ---------------------------------------------------------------------- *)
(* Hybrid search (src/app/search.py)                                       *)
(* ---------------------------------------------------------------------- *)
(* the parameters of get_member_contributions *)
ParameterNames ==
  {"member_id", "search_term", "take", "skip", "start_date", "end_date"}

(* A contribution of a keyword search with the dot product of its          *)
(* embedding and the query's, in units of 0.00001                          *)
Scored(cid, sim) == [contribution_id |-> cid, sim |-> sim]

ScoredContributions ==
  { Scored(cid, sim) : cid \in {"a", "b"}, sim \in {14, 15, 26} }

MaxPool == 2

(* what the Hansard API answers to the keyword search: an error status, or *)
(* the contributions in the order of the API                               *)
KeywordResults ==
  { [ok |-> FALSE, items |-> <<>>] } \cup
  { [ok |-> TRUE, items |-> items] :
      items \in UNION { [1..n -> ScoredContributions] : n \in 0..MaxPool } }

(* a call of get_member_contributions with the keyword arguments names:    *)
(* a name that is no parameter raises TypeError before any request         *)
get_member_contributions(names, api) ==
  IF ~(names \subseteq ParameterNames)
  THEN [raised |-> TRUE, requested |-> FALSE, items |-> <<>>]
  ELSE IF ~api.ok
  THEN [raised |-> TRUE, requested |-> TRUE, items |-> <<>>]
  ELSE [raised |-> FALSE, requested |-> TRUE, items |-> api.items]

(* round(float(sim), 4): to units of 0.0001, halves to the even neighbour *)
Round4(sim) ==
  IF sim % 10 > 5 \/ (sim % 10 = 5 /\ (sim \div 10) % 2 = 1)
  THEN sim \div 10 + 1
  ELSE sim \div 10

(* scored_results.sort(key=lambda x: x[1], reverse=True): by falling       *)
(* similarity, equal similarities in the order of the list                 *)
SortedBySimilarity(items) ==
  LET Place(i) == 1 + Cardinality({ j \in 1..Len(items) :
                                      \/ items[j].sim > items[i].sim
                                      \/ items[j].sim = items[i].sim /\ j < i })
  IN  [ p \in 1..Len(items) |-> items[CHOOSE i \in 1..Len(items) : Place(i) = p] ]

(* hybrid_search: the keyword arguments it passes are member_id,           *)
(* search_term, take and filter_short. encoded: the embedding model was    *)
(* obtained and used.                                                      *)
hybrid_search(api, num_results) ==
  LET keyword_results ==
        get_member_contributions({"member_id", "search_term", "take", "filter_short"},
                                 api)
      top_results ==
        SubSeq(SortedBySimilarity(keyword_results.items), 1,
               IF num_results < Len(keyword_results.items) THEN num_results
               ELSE Len(keyword_results.items))
  IN  IF keyword_results.raised
      THEN [raised |-> TRUE, requested |-> keyword_results.requested,
            encoded |-> FALSE, keyword_matches |-> 0, results |-> <<>>]
      ELSE IF keyword_results.items = <<>>
      THEN [raised |-> FALSE, requested |-> TRUE, encoded |-> FALSE,
            keyword_matches |-> 0, results |-> <<>>]
      ELSE [raised |-> FALSE, requested |-> TRUE, encoded |-> TRUE,
            keyword_matches |-> Len(keyword_results.items),
            results |-> [ r \in 1..Len(top_results) |->
                            [rank |-> r,
                             similarity |-> Round4(top_results[r].sim),
                             contribution_id |-> top_results[r].contribution_id] ]]

(* ---------------------------------------------------------------------- *)
(* A check_alerts call in progress                                         *)
(* ---------------------------------------------------------------------- *)
(* no check_alerts call is between line 221 and line 296 *)
NoRun == [active |-> FALSE, alerts |-> <<>>]

(* ---------------------------------------------------------------------- *)
(* create_alert calls in progress                                          *)
(* ---------------------------------------------------------------------- *)
(* the sessions that can be inside create_alert at the same time *)
MaxSessions == 2

Sessions == 1..MaxSessions

(* the session is not between line 42 and the save of create_alert *)
NoCall ==
  [active |-> FALSE, member_id |-> 0, email |-> "",
   topics |-> [some |-> FALSE, list |-> NoTopics], alerts |-> <<>>]

NoCalls == [s \in Sessions |-> NoCall]

(* the calls that can be between their load and their save at one time *)
MaxInProgress == 2

(* ---------------------------------------------------------------------- *)
(* State                                                                   *)
(* ---------------------------------------------------------------------- *)
(* the page is drawn and waits for a button: no call is in progress *)
Idle == [op |-> "none"]

VARIABLES
  file,     \* data/alerts.json
  clock,    \* the time datetime.now() returns, in ticks
  has_key,  \* whether GEMINI_API_KEY is set in the environment
  last,     \* the call that has just returned: its arguments, the list it
            \* loaded and what it did; Idle once the page has been redrawn
  index,    \* data/chromadb: the collection of each member
  run,      \* a check_alerts call between its load and its save
  proc,     \* the singletons of the process: _model and _chroma_client
  creating  \* the create_alert calls between their load and their save

vars == <<file, clock, has_key, last, index, run, proc, creating>>

Init ==
  /\ file = NoFile
  /\ clock = 0
  /\ has_key \in BOOLEAN
  /\ last = Idle
  /\ index = NoIndex
  /\ run = NoRun
  /\ proc = NoSingletons
  /\ creating = NoCalls

(* what the world can do for the alerts of one check_alerts run *)
OutcomeSeqs(alerts, key) ==
  { outs \in [1..Len(alerts) -> Outcomes] :
      \A i \in 1..Len(alerts) : Canonical(alerts[i], outs[i], key) }

(* the positions of the listed alerts whose button passes alert_id *)
Targets(alerts, alert_id) ==
  LET ks == { k \in 1..Len(alerts) : alerts[k].id = alert_id }
  IN  IF ks = {} THEN {0} ELSE ks

(* ---------------------------------------------------------------------- *)
(* The canonical URL of a contribution (src/app/hansard_client.py)         *)
(* ---------------------------------------------------------------------- *)
(* Texts are sequences of characters; a sitting date is a sequence of its  *)
(* parts, with "T" between the date and the time of day.                   *)
MaxTitle == 3

(* calls made with the same arguments *)
MaxUrlCalls == 2

TitleChars == {"a", "B", " ", "'"}

Titles == UNION { [1..n -> TitleChars] : n \in 0..MaxTitle }

Houses == {"Commons", "Lords"}

SittingDates ==
  { <<"2024-01-15">>, <<"2024-01-15", "T", "00:00:00">>, <<"2024-01-16", "T", "00:00:00">> }

SectionIds == {"s1", "s2"}

(* str.upper and str.lower on one character *)
Upper(ch) == IF ch = "a" THEN "A" ELSE IF ch = "b" THEN "B" ELSE ch

Lower(ch) == IF ch = "A" THEN "a" ELSE IF ch = "B" THEN "b" ELSE ch

(* sitting_date.split("T")[0]: the text before the first "T" *)
SplitAtT(sitting_date) ==
  SubSeq(sitting_date, 1,
         IF \E i \in 1..Len(sitting_date) : sitting_date[i] = "T"
         THEN FirstOf({ i \in 1..Len(sitting_date) : sitting_date[i] = "T" }) - 1
         ELSE Len(sitting_date))

(* re.sub(r"[^a-zA-Z0-9\s]", "", debate_title), then the words of          *)
(* slug.split(), each capitalized, joined without a separator              *)
Slug(debate_title) ==
  LET Kept(ch) == ch \in {"a", "b", "A", "B", " "}
      NoSpace(ch) == ch # " "
      kept == SelectSeq(debate_title, Kept)
      cased == [ i \in 1..Len(kept) |->
                   IF kept[i] = " " THEN " "
                   ELSE IF i = 1 THEN Upper(kept[i])
                   ELSE IF kept[i - 1] = " " THEN Upper(kept[i])
                   ELSE Lower(kept[i]) ]
  IN  SelectSeq(cased, NoSpace)

(* a URL builder that fills in the date of the day of the call when the    *)
(* sitting date carries no time of day                                     *)
build_hansard_url_dated_by_call(house, sitting_date, debate_section_id, debate_title) ==
  [ url |-> << "https://hansard.parliament.uk", house,
               IF \E i \in 1..Len(sitting_date) : sitting_date[i] = "T"
               THEN SplitAtT(sitting_date)
               ELSE <<clock \div TicksPerDay>>,
               "debates", debate_section_id, Slug(debate_title) >>,
    requests |-> 0 ]

(* _build_hansard_url: the parts of the returned string between the        *)
(* slashes, and the number of requests made to build it                    *)
build_hansard_url(house, sitting_date, debate_section_id, debate_title) ==
  [ url |-> << "https://hansard.parliament.uk", house, SplitAtT(sitting_date),
               "debates", debate_section_id, Slug(debate_title) >>,
    requests |-> 0 ]

(* ---------------------------------------------------------------------- *)
(* Actions: one per operation of the alert engine                          *)
(* ---------------------------------------------------------------------- *)
CreateAlert ==
  /\ last = Idle
  /\ \E m \in Members, e \in Emails, t \in TopicArgs :
       \E r \in { create_alert(file, m, MemberName(m), e, t, clock, clock) } :
         /\ Len(load_alerts(r.file)) <= MaxAlerts
         /\ file' = r.file
         /\ last' = [op |-> "create", pre |-> load_alerts(file), member_id |-> m,
                     email |-> e, topics |-> t, isnew |-> r.isnew]
         /\ UNCHANGED <<clock, has_key, index, run, proc, creating>>

DeleteAlert ==
  /\ last = Idle
  /\ \E alert_id \in 1..(MaxAlerts + 1) :
       \E target \in Targets(load_alerts(file), alert_id) :
         \E r \in { delete_alert(file, alert_id) } :
           /\ file' = r.file
           /\ last' = [op |-> "delete", pre |-> load_alerts(file),
                       alert_id |-> alert_id, target |-> target, ret |-> r.ret]
           /\ UNCHANGED <<clock, has_key, index, run, proc, creating>>

ToggleAlert ==
  /\ last = Idle
  /\ \E alert_id \in 1..(MaxAlerts + 1) :
       \E target \in Targets(load_alerts(file), alert_id) :
         \E r \in { toggle_alert(file, alert_id) } :
           /\ file' = r.file
           /\ last' = [op |-> "toggle", pre |-> load_alerts(file),
                       alert_id |-> alert_id, target |-> target, pos |-> r.pos]
           /\ UNCHANGED <<clock, has_key, index, run, proc, creating>>

CheckAlerts ==
  /\ last = Idle
  /\ \E outs \in OutcomeSeqs(load_alerts(file), has_key) :
       \E r \in { check_alerts(file, clock, outs, has_key) } :
         /\ file' = r.file
         /\ last' = [op |-> "check", pre |-> load_alerts(file),
                     started |-> clock, steps |-> r.steps, saved |-> r.saved]
         /\ UNCHANGED <<clock, has_key, index, run, proc, creating>>

(* st.rerun(): the page is drawn again from the store *)
Rerun ==
  /\ last # Idle
  /\ last' = Idle
  /\ UNCHANGED <<file, clock, has_key, index, run, proc, creating>>

(* time passes while the page waits; the reads of the clock within one call *)
(* fall into one tick                                                       *)
Tick ==
  /\ last = Idle
  /\ clock < MaxClock
  /\ clock' = clock + 1
  /\ UNCHANGED <<file, has_key, last, index, run, proc, creating>>

Next ==
  CreateAlert \/ DeleteAlert \/ ToggleAlert \/ CheckAlerts \/ Rerun \/ Tick

Spec == Init /\ [][Next]_vars

(* ---------------------------------------------------------------------- *)
(* Actions of the vector index                                             *)
(* ---------------------------------------------------------------------- *)
IndexContributions ==
  /\ last = Idle
  /\ \E m \in Members, contributions \in SpeechLists, dup_raises \in BOOLEAN :
       /\ dup_raises => HasDuplicateIds(contributions)
       /\ \E r \in { index_contributions(index, m, contributions, dup_raises) } :
            /\ index' = r.index
            /\ proc' = Obtained(proc, r.client, r.model)
            /\ last' = [op |-> "index", pre |-> index, member_id |-> m,
                        contributions |-> contributions, dup_raises |-> dup_raises,
                        raised |-> r.raised, ret |-> r.ret, encoded |-> r.encoded,
                        before |-> proc, got_client |-> r.client,
                        got_model |-> r.model]
            /\ UNCHANGED <<file, clock, has_key, run, creating>>

SemanticQuery ==
  /\ last = Idle
  /\ \E m \in Members, top_k \in 1..MaxTopK :
       \E nearest \in Nearest(index[collection_name(m)], NResults(index, m, top_k)) :
         \E r \in { semantic_query(index, m, top_k, nearest) } :
           /\ proc' = Obtained(proc, TRUE, r.queried)
           /\ last' = [op |-> "query", pre |-> index, member_id |-> m,
                       top_k |-> top_k, raised |-> r.raised,
                       queried |-> r.queried, out |-> r.out,
                       before |-> proc, got_client |-> TRUE,
                       got_model |-> r.queried]
           /\ UNCHANGED <<file, clock, has_key, index, run, creating>>

GetIndexStats ==
  /\ last = Idle
  /\ \E m \in Members :
       /\ proc' = Obtained(proc, TRUE, FALSE)
       /\ last' = [op |-> "stats", pre |-> index, member_id |-> m,
                   stats |-> get_index_stats(index, m),
                   before |-> proc, got_client |-> TRUE, got_model |-> FALSE]
       /\ UNCHANGED <<file, clock, has_key, index, run, creating>>

DeleteMemberIndex ==
  /\ last = Idle
  /\ \E m \in Members :
       \E r \in { delete_member_index(index, m) } :
         /\ index' = r.index
         /\ proc' = Obtained(proc, TRUE, FALSE)
         /\ last' = [op |-> "unindex", pre |-> index, member_id |-> m,
                     ret |-> r.ret,
                     before |-> proc, got_client |-> TRUE, got_model |-> FALSE]
         /\ UNCHANGED <<file, clock, has_key, run, creating>>

(* a call of get_model by itself *)
GetModel ==
  /\ last = Idle
  /\ proc' = get_model(proc)
  /\ last' = [op |-> "get_model", before |-> proc, got_client |-> FALSE,
              got_model |-> TRUE]
  /\ UNCHANGED <<file, clock, has_key, index, run, creating>>

(* a call of get_chroma_client by itself *)
GetChromaClient ==
  /\ last = Idle
  /\ proc' = get_chroma_client(proc)
  /\ last' = [op |-> "get_chroma_client", before |-> proc, got_client |-> TRUE,
              got_model |-> FALSE]
  /\ UNCHANGED <<file, clock, has_key, index, run, creating>>

NextIndex ==
  IndexContributions \/ SemanticQuery \/ GetIndexStats \/ DeleteMemberIndex
    \/ GetModel \/ GetChromaClient \/ Rerun

SpecIndex == Init /\ [][NextIndex]_vars

(* ---------------------------------------------------------------------- *)
(* Actions of the relevance filter                                         *)
(* ---------------------------------------------------------------------- *)
(* what the model call of filter_contributions_by_topics gives *)
FilterResponses ==
  LLMResponses \cup { LLMMalformed, LLMOneLineFence, LLMBadShape, LLMJson(<<Item(2)>>),
                     LLMStrayIndexes, LLMSameTwice }

CallGemini ==
  /\ last = Idle
  /\ \E outcomes \in [1..(MaxRetries + 1) -> AttemptOutcomes] :
       /\ last' = [op |-> "call", outcomes |-> outcomes,
                   result |-> call_gemini(outcomes, MaxRetries)]
       /\ UNCHANGED <<file, clock, has_key, index, run, proc, creating>>

RankContributions ==
  /\ last = Idle
  /\ \E contributions \in ContributionLists, max_results \in 1..MaxResults :
       \E resps \in [1..NumBatches(contributions) -> RankResponses] :
         /\ last' = [op |-> "rank", contributions |-> contributions,
                     resps |-> resps, max_results |-> max_results,
                     result |-> rank_contributions(contributions, has_key, resps,
                                                   max_results)]
         /\ UNCHANGED <<file, clock, has_key, index, run, proc, creating>>

FilterContributions ==
  /\ last = Idle
  /\ \E contributions \in ContributionLists, topics \in {NoTopics, Housing},
        resp \in FilterResponses :
       /\ last' = [op |-> "filter", contributions |-> contributions,
                   topics |-> topics, resp |-> resp,
                   result |-> filter_contributions_by_topics(contributions, topics,
                                                             has_key, resp)]
       /\ UNCHANGED <<file, clock, has_key, index, run, proc, creating>>

NextLLM == CallGemini \/ RankContributions \/ FilterContributions \/ Rerun

SpecLLM == Init /\ [][NextLLM]_vars

(* ---------------------------------------------------------------------- *)
(* Actions of the hybrid search                                            *)
(* ---------------------------------------------------------------------- *)
HybridSearch ==
  /\ last = Idle
  /\ \E m \in Members, api \in KeywordResults, num_results \in 1..MaxResults :
       /\ last' = [op |-> "hybrid", member_id |-> m, api |-> api,
                   num_results |-> num_results,
                   result |-> hybrid_search(api, num_results),
                   before |-> proc,
                   got_client |-> FALSE,
                   got_model |-> hybrid_search(api, num_results).encoded]
       /\ proc' = Obtained(proc, FALSE, hybrid_search(api, num_results).encoded)
       /\ UNCHANGED <<file, clock, has_key, index, run, creating>>

NextSearch == HybridSearch \/ Rerun

SpecSearch == Init /\ [][NextSearch]_vars

(* ---------------------------------------------------------------------- *)
(* check_alerts in two steps, other calls in between                       *)
(* ---------------------------------------------------------------------- *)
(* line 221: the call loads the list *)
BeginCheck ==
  /\ last = Idle
  /\ ~run.active
  /\ run' = [active |-> TRUE, alerts |-> load_alerts(file)]
  /\ UNCHANGED <<file, clock, has_key, last, index, proc, creating>>

(* the end of the call on the list as the file holds it now *)
EndCheck_reloads ==
  /\ last = Idle
  /\ run.active
  /\ \E outs \in OutcomeSeqs(load_alerts(file), has_key) :
       \E r \in { check_alerts(file, clock, outs, has_key) } :
         /\ file' = r.file
         /\ last' = [op |-> "check_end", loaded |-> run.alerts,
                     before |-> load_alerts(file), steps |-> r.steps,
                     saved |-> r.saved]
         /\ run' = NoRun
         /\ UNCHANGED <<clock, has_key, index, proc, creating>>

(* lines 224-296: the loop over the list that was loaded, and the save of  *)
(* that list when a watermark was set                                      *)
EndCheck ==
  /\ last = Idle
  /\ run.active
  /\ \E outs \in OutcomeSeqs(run.alerts, has_key) :
       \E r \in { check_alerts(save_alerts(run.alerts), clock, outs, has_key) } :
         /\ file' = IF r.saved THEN r.file ELSE file
         /\ last' = [op |-> "check_end", loaded |-> run.alerts,
                     before |-> load_alerts(file), steps |-> r.steps,
                     saved |-> r.saved]
         /\ run' = NoRun
         /\ UNCHANGED <<clock, has_key, index, proc, creating>>

(* create_alert called from another session while the run is between its   *)
(* load and its save, or before it: subscriptions of one address, without *)
(* topics                                                                  *)
OtherCreate ==
  /\ CreateAlert
  /\ last'.email = "a@x"
  /\ ~last'.topics.some

NextRace ==
  BeginCheck \/ EndCheck \/ OtherCreate \/ DeleteAlert \/ ToggleAlert \/ Rerun
    \/ Tick

SpecRace == Init /\ [][NextRace]_vars

(* ---------------------------------------------------------------------- *)
(* Actions of the URL construction                                         *)
(* ---------------------------------------------------------------------- *)
BuildUrl ==
  /\ last = Idle
  /\ \E house \in Houses, sitting_date \in SittingDates,
        debate_section_id \in SectionIds, debate_title \in Titles :
       /\ last' = [op |-> "url", house |-> house, sitting_date |-> sitting_date,
                   debate_section_id |-> debate_section_id,
                   debate_title |-> debate_title,
                   calls |-> << [at |-> clock,
                                 result |-> build_hansard_url(house, sitting_date,
                                              debate_section_id, debate_title)] >>]
       /\ UNCHANGED <<file, clock, has_key, index, run, proc, creating>>

(* a further call with the arguments of the call before *)
BuildUrlAgain ==
  /\ last # Idle
  /\ last.op = "url"
  /\ Len(last.calls) < MaxUrlCalls
  /\ last' = [last EXCEPT !.calls =
                Append(@, [at |-> clock,
                           result |-> build_hansard_url(last.house, last.sitting_date,
                                        last.debate_section_id, last.debate_title)])]
  /\ UNCHANGED <<file, clock, has_key, index, run, proc, creating>>

(* time passes between two calls of a sequence of calls *)
Elapse ==
  /\ last # Idle
  /\ last.op \in {"url", "poll"}
  /\ clock < MaxClock
  /\ clock' = clock + 1
  /\ UNCHANGED <<file, has_key, last, index, run, proc, creating>>

NextUrl == BuildUrl \/ BuildUrlAgain \/ Elapse \/ Rerun \/ Tick

SpecUrl == Init /\ [][NextUrl]_vars

(* ---------------------------------------------------------------------- *)
(* Actions of successive check_alerts runs                                 *)
(* ---------------------------------------------------------------------- *)
(* a check_alerts run, the first or one that follows another; the log      *)
(* keeps the runs made since the page was drawn                            *)
PollCheck ==
  /\ \/ last = Idle
     \/ last.op = "poll" /\ Len(last.runs) < MaxRuns
  /\ \E outs \in DatedOutcomeSeqs(load_alerts(file), clock, has_key) :
       \E r \in { check_alerts(file, clock, outs, has_key) } :
         /\ file' = r.file
         /\ last' = [op |-> "poll",
                     runs |-> Append(IF last = Idle THEN <<>> ELSE last.runs,
                                [pre |-> load_alerts(file), started |-> clock,
                                 steps |-> r.steps, saved |-> r.saved])]
         /\ UNCHANGED <<clock, has_key, index, run, proc, creating>>

NextPoll == OtherCreate \/ PollCheck \/ Elapse \/ Rerun \/ Tick

SpecPoll == Init /\ [][NextPoll]_vars

(* ---------------------------------------------------------------------- *)
(* Actions of create_alert calls that interleave                           *)
(* ---------------------------------------------------------------------- *)
(* the calls that are between their load and their save *)
InProgress ==
  Cardinality({ s \in Sessions : creating[s].active })
    + (IF run.active THEN 1 ELSE 0)

(* line 42: a create_alert call for one address loads the list, while at   *)
(* most one other call is in progress                                      *)
BeginCreate(s) ==
  /\ last = Idle
  /\ ~creating[s].active
  /\ InProgress < MaxInProgress
  /\ \E m \in Members, t \in TopicArgs :
       creating' = [creating EXCEPT ![s] =
                      [active |-> TRUE, member_id |-> m, email |-> "a@x",
                       topics |-> t, alerts |-> load_alerts(file)]]
  /\ UNCHANGED <<file, clock, has_key, last, index, run, proc>>

(* the end of create_alert that appends its record to the list the file    *)
(* holds at the time of the save                                           *)
EndCreate_appends_to_current(s) ==
  /\ last = Idle
  /\ creating[s].active
  /\ \E r \in { create_alert(save_alerts(creating[s].alerts), creating[s].member_id,
                             MemberName(creating[s].member_id), creating[s].email,
                             creating[s].topics, clock, clock) } :
       /\ Len(load_alerts(file)) + 1 <= MaxAlerts + 1
       /\ file' = IF r.isnew
                  THEN save_alerts(Append(load_alerts(file),
                                          load_alerts(r.file)[Len(load_alerts(r.file))]))
                  ELSE IF creating[s].topics.some THEN r.file
                  ELSE file
       /\ last' = [op |-> "create_end", session |-> s,
                   member_id |-> creating[s].member_id, email |-> creating[s].email,
                   topics |-> creating[s].topics, loaded |-> creating[s].alerts, before |-> load_alerts(file),
                   isnew |-> r.isnew]
       /\ creating' = [creating EXCEPT ![s] = NoCall]
       /\ UNCHANGED <<clock, has_key, index, run, proc>>

(* lines 45-65: the search for the pair in the list that was loaded; the   *)
(* save of that list with the new topics of the stored pair, or with the   *)
(* new record                                                              *)
EndCreate(s) ==
  /\ last = Idle
  /\ creating[s].active
  /\ \E r \in { create_alert(save_alerts(creating[s].alerts), creating[s].member_id,
                             MemberName(creating[s].member_id), creating[s].email,
                             creating[s].topics, clock, clock) } :
       /\ Len(load_alerts(r.file)) <= MaxAlerts
       /\ file' = IF r.isnew \/ creating[s].topics.some THEN r.file ELSE file
       /\ last' = [op |-> "create_end", session |-> s,
                   member_id |-> creating[s].member_id, email |-> creating[s].email,
                   topics |-> creating[s].topics, loaded |-> creating[s].alerts, before |-> load_alerts(file),
                   isnew |-> r.isnew]
       /\ creating' = [creating EXCEPT ![s] = NoCall]
       /\ UNCHANGED <<clock, has_key, index, run, proc>>

(* the end of a check_alerts run for which the API had nothing new: each   *)
(* fetch failed or returned no contribution                                *)
EndQuietCheck ==
  /\ EndCheck
  /\ \A i \in 1..Len(last'.steps) : last'.steps[i].fetched = <<>>

(* the calls interleave within one tick of the clock *)
NextCreateRace ==
  \/ \E s \in Sessions : BeginCreate(s)
  \/ \E s \in Sessions : EndCreate(s)
  \/ BeginCheck /\ InProgress < MaxInProgress
  \/ EndQuietCheck
  \/ Rerun

SpecCreateRace == Init /\ [][NextCreateRace]_vars

(* ---------------------------------------------------------------------- *)
(* Properties                                                              *)
(* ---------------------------------------------------------------------- *)
Stored == load_alerts(file)

SamePair(a, b) == a.member_id = b.member_id /\ a.email = b.email

(* the positions of the list `alerts` that hold the pair of the last create call *)
PairPositions(alerts) ==
  { k \in 1..Len(alerts) :
      alerts[k].member_id = last.member_id /\ alerts[k].email = last.email }

(* C1: after any sequence of create_alert, delete_alert, toggle_alert and   *)
(* check_alerts calls, no two stored alerts have the same (member_id,       *)
(* email) pair.                                                             *)
C1_UniquePair ==
  \A i, j \in 1..Len(Stored) : SamePair(Stored[i], Stored[j]) => i = j

(* a create_alert call for a stored pair has returned, and the store holds  *)
(* two alerts that share the member and two that share the email address    *)
C1_Witness ==
  /\ last.op = "create"
  /\ PairPositions(last.pre) # {}
  /\ Len(Stored) = 2
  /\ \/ Stored[1].member_id = Stored[2].member_id
     \/ Stored[1].email = Stored[2].email

(* C2: create_alert for a (member_id, email) pair that is already stored    *)
(* adds no record: the store keeps exactly one record for the pair, whose   *)
(* topics are the call's topics when topics were given and stay as they     *)
(* were when topics is None, and whose id, created_at, last_checked and     *)
(* active fields are unchanged.                                             *)
C2_DuplicateCreate ==
  (last.op = "create" /\ PairPositions(last.pre) # {}) =>
    /\ Len(Stored) = Len(last.pre)
    /\ Cardinality(PairPositions(Stored)) = 1
    /\ \A k \in PairPositions(Stored) :
         /\ k \in PairPositions(last.pre)
         /\ Stored[k].topics = IF last.topics.some THEN last.topics.list
                               ELSE last.pre[k].topics
         /\ Stored[k].id = last.pre[k].id
         /\ Stored[k].created_at = last.pre[k].created_at
         /\ Stored[k].last_checked = last.pre[k].last_checked
         /\ Stored[k].active = last.pre[k].active

(* a duplicate create_alert with topics None has returned for a paused      *)
(* alert that has topics and whose watermark has moved since its creation   *)
C2_Witness ==
  /\ last.op = "create"
  /\ ~last.topics.some
  /\ \E k \in PairPositions(last.pre) :
       /\ last.pre[k].topics # <<>>
       /\ ~last.pre[k].active
       /\ last.pre[k].last_checked > last.pre[k].created_at
       /\ Stored[k] = last.pre[k]

(* ---- check_alerts runs ------------------------------------------------- *)
CheckRan == last.op = "check"

(* the ids the topic filter returned for the alert at position i *)
MatchedIds(i) ==
  { last.steps[i].matched[k].contribution_id :
      k \in 1..Len(last.steps[i].matched) }

(* line 289 ran for the alert at position i: the store holds, as its        *)
(* last_checked, the time that was read then, a time within the run         *)
Advanced(i) ==
  /\ last.steps[i].advanced
  /\ file.exists
  /\ Stored[i].last_checked = last.steps[i].now
  /\ last.started <= last.steps[i].now
  /\ last.steps[i].now <= clock

C5_WatermarkMonotone ==
  [][ \A i \in 1..Len(load_alerts(file)) :
        \A j \in 1..Len(load_alerts(file')) :
          SamePair(load_alerts(file)[i], load_alerts(file')[j]) =>
            load_alerts(file')[j].last_checked >= load_alerts(file)[i].last_checked
    ]_vars

(* a run that moved one watermark strictly forward from a time later than   *)
(* the start of its day, next to an alert whose watermark stayed            *)
C5_Witness ==
  /\ CheckRan
  /\ \E i, j \in 1..Len(last.pre) :
       /\ Advanced(i)
       /\ last.pre[i].last_checked > DatePart(last.pre[i].last_checked) * TicksPerDay
       /\ Stored[i].last_checked > last.pre[i].last_checked
       /\ Stored[j].last_checked = last.pre[j].last_checked

(* C6: for an active alert with topics, a credential and a non-empty fetch: *)
(* when the filter returns at least one match, the notification holds       *)
(* exactly the fetched contributions whose id is among the matched ids;     *)
(* when it returns no match, no notification is dispatched.                 *)
C6_NarrowToMatched ==
  CheckRan =>
    \A i \in 1..Len(last.pre) :
      LET st == last.steps[i]
          wanted == { c \in Range(st.fetched) : c.contribution_id \in MatchedIds(i) }
      IN  ( /\ last.pre[i].active /\ last.pre[i].topics # <<>> /\ has_key
            /\ st.fetch_ok /\ st.fetched # <<>> /\ ~st.filter_raised ) =>
            /\ st.filter_called
            /\ MatchedIds(i) # {} =>
                 /\ Len(st.mail) = 1
                 /\ Range(st.mail[1].contributions) = wanted
                 /\ Len(st.mail[1].contributions) = Cardinality(wanted)
            /\ MatchedIds(i) = {} => st.mail = <<>>

(* two contributions fetched, the filter matched only the first, and the    *)
(* notification holds exactly that one                                      *)
C6_Witness ==
  /\ CheckRan
  /\ \E i \in 1..Len(last.pre) :
       /\ last.steps[i].fetched = <<C1st, C2nd>>
       /\ MatchedIds(i) = {"c1"}
       /\ Len(last.steps[i].mail) = 1
       /\ last.steps[i].mail[1].contributions = <<C1st>>

PossiblyFiltered(i) ==
  LET st == last.steps[i]
  IN  IF ~st.fetch_ok THEN {}
      ELSE IF ~st.filter_called \/ st.filter_raised THEN Range(st.fetched)
      ELSE { c \in Range(st.fetched) : c.contribution_id \in MatchedIds(i) }

(* C8: in one check_alerts run each active alert causes at most one         *)
(* notification, sent to that alert's email, and it is sent if and only if  *)
(* the (possibly filtered) contribution set of the alert is non-empty; an   *)
(* alert without topics is notified with exactly the fetched contributions. *)
C8_OneNotification ==
  CheckRan =>
    \A i \in 1..Len(last.pre) :
      LET st == last.steps[i]
      IN  last.pre[i].active =>
            /\ Len(st.mail) <= 1
            /\ \A k \in 1..Len(st.mail) :
                 /\ st.mail[k].to = last.pre[i].email
                 /\ Range(st.mail[k].contributions) = PossiblyFiltered(i)
            /\ st.mail # <<>> <=> PossiblyFiltered(i) # {}
            /\ (last.pre[i].topics = <<>> /\ st.fetch_ok /\ st.fetched # <<>>) =>
                 /\ Len(st.mail) = 1
                 /\ st.mail[1].contributions = st.fetched

(* a run that notified an alert without topics about both fetched           *)
(* contributions and sent nothing for another active alert                  *)
C8_Witness ==
  /\ CheckRan
  /\ \E i, j \in 1..Len(last.pre) :
       /\ last.pre[i].topics = <<>>
       /\ Len(last.steps[i].mail) = 1
       /\ last.steps[i].mail[1].to = last.pre[i].email
       /\ last.steps[i].mail[1].contributions = <<C1st, C2nd>>
       /\ last.pre[j].active
       /\ last.pre[j].email # last.pre[i].email
       /\ last.steps[j].fetch_ok
       /\ last.steps[j].mail = <<>>

(* C9: check_alerts skips every inactive alert: no fetch is made for it, no *)
(* notification is sent for it, and all its fields are the same in the      *)
(* store after the run as before.                                           *)
C9_InactiveSkipped ==
  CheckRan =>
    /\ Len(Stored) = Len(last.pre)
    /\ \A i \in 1..Len(last.pre) :
         ~last.pre[i].active =>
           /\ ~last.steps[i].fetch_called
           /\ last.steps[i].mail = <<>>
           /\ Stored[i] = last.pre[i]

(* a run that saved the moved watermark of an active alert and left a       *)
(* paused alert with an older watermark as it was                           *)
C9_Witness ==
  /\ CheckRan
  /\ last.saved
  /\ \E i, j \in 1..Len(last.pre) :
       /\ ~last.pre[i].active
       /\ Stored[i] = last.pre[i]
       /\ Advanced(j)
       /\ Stored[j].last_checked > Stored[i].last_checked

(* ---- the active flag --------------------------------------------------- *)
(* a new alert is stored active *)
CreatedActive ==
  (last.op = "create" /\ PairPositions(last.pre) = {}) =>
    /\ Len(Stored) = Len(last.pre) + 1
    /\ Stored[Len(Stored)].active

(* toggle_alert flips the flag of the alert whose button the caller         *)
(* pressed, and changes nothing else                                        *)
ToggleFlipsIdentified ==
  (last.op = "toggle" /\ last.target > 0) =>
    Stored = [last.pre EXCEPT ![last.target].active = ~last.pre[last.target].active]

(* two toggle_alert calls with the same id restore the store *)
TwoTogglesRestore ==
  \A alert_id \in 1..(MaxAlerts + 1) :
    load_alerts(toggle_alert(toggle_alert(file, alert_id).file, alert_id).file)
      = Stored

(* create_alert and check_alerts leave the flag of every stored alert alone *)
OthersKeepActive ==
  (last.op \in {"create", "check"}) =>
    \A i \in 1..Len(last.pre) :
      /\ i <= Len(Stored)
      /\ Stored[i].active = last.pre[i].active

(* C10: each alert is active or paused: it is created active, toggle_alert  *)
(* flips the active flag of exactly one stored alert, the one the caller    *)
(* identified by id, and changes nothing else, two toggles restore the      *)
(* original state, and neither a duplicate create_alert nor check_alerts    *)
(* changes any alert's active flag.                                         *)
C10_ActivePausedByToggle ==
  /\ \A i \in 1..Len(Stored) : Stored[i].active \in BOOLEAN
  /\ CreatedActive
  /\ ToggleFlipsIdentified
  /\ TwoTogglesRestore
  /\ OthersKeepActive


(* ---------------------------------------------------------------------- *)
(* Properties of the vector index                                          *)
(* ---------------------------------------------------------------------- *)
IdsOf(contributions) ==
  { contributions[k].contribution_id : k \in 1..Len(contributions) }

StoredIds(idx, member_id) == DOMAIN idx[collection_name(member_id)].docs

(* C11: when index_contributions has been called with a non-empty list for  *)
(* a member whose collection held none of the list's ids, the call returned *)
(* a value greater than 0, and a second call with the same list returns 0   *)
(* and leaves indexed_count as the first call left it.                      *)
C11_IndexTwice ==
  ( /\ last.op = "index"
    /\ last.contributions # <<>>
    /\ IdsOf(last.contributions) \cap StoredIds(last.pre, last.member_id) = {} )
  => /\ ~last.raised
     /\ last.ret > 0
     /\ \A d \in BOOLEAN :
          LET again == index_contributions(index, last.member_id,
                                           last.contributions, d)
          IN  /\ ~again.raised
              /\ again.ret = 0
              /\ get_index_stats(again.index, last.member_id).indexed_count
                   = get_index_stats(index, last.member_id).indexed_count

(* C12: index_contributions returns the increase of indexed_count, and the  *)
(* collection afterwards holds exactly the ids it held before and the ids   *)
(* of the input list, for every input list, also one that repeats an id.    *)
C12_ReturnsNewlyAdded ==
  last.op = "index"
  => /\ ~last.raised
     /\ last.ret = get_index_stats(index, last.member_id).indexed_count
                     - get_index_stats(last.pre, last.member_id).indexed_count
     /\ StoredIds(index, last.member_id)
          = StoredIds(last.pre, last.member_id) \cup IdsOf(last.contributions)

(* C13: on a member without a collection get_index_stats gives              *)
(* indexed_count 0 and semantic_query gives [] (also on an empty            *)
(* collection), without an error; delete_member_index returns True exactly  *)
(* when a collection existed, and after it a second delete returns False,   *)
(* the stats are 0 and a query gives [].                                    *)
C13_MissingCollectionIsNormal ==
  /\ ( last.op = "stats" /\ ~last.pre[collection_name(last.member_id)].exists )
       => last.stats.indexed_count = 0
  /\ ( /\ last.op = "query"
       /\ \/ ~last.pre[collection_name(last.member_id)].exists
          \/ Count(last.pre[collection_name(last.member_id)]) = 0 )
       => ~last.raised /\ last.out = <<>>
  /\ last.op = "unindex"
       => /\ last.ret = last.pre[collection_name(last.member_id)].exists
          /\ delete_member_index(index, last.member_id).ret = FALSE
          /\ get_index_stats(index, last.member_id).indexed_count = 0
          /\ \A top_k \in 1..MaxTopK :
               LET q == semantic_query(index, last.member_id, top_k, <<>>)
               IN  ~q.raised /\ q.out = <<>>

(* a collection that held entries has been deleted *)
C13_Witness ==
  /\ last.op = "unindex"
  /\ last.ret
  /\ Count(last.pre[collection_name(last.member_id)]) > 0


(* ---------------------------------------------------------------------- *)
(* Properties of the relevance filter                                      *)
(* ---------------------------------------------------------------------- *)
(* the first k attempts all fail with a rate-limit error *)
RateLimitedUpTo(outcomes, k) == \A j \in 1..k : outcomes[j].kind = "429"

(* C14: one _call_gemini call makes at most 3 attempts; after a rate-limit  *)
(* failure it waits 20s before the second attempt and 40s before the third; *)
(* it returns the text of the first successful attempt; when the third      *)
(* attempt is rate-limited too, the error is raised to the caller.          *)
C14_BoundedRetry ==
  last.op = "call"
  => LET r == last.result
         o == last.outcomes
     IN  /\ r.attempts \in 1..3
         /\ RateLimitedUpTo(o, r.attempts - 1)
         /\ \A k \in 1..2 : RateLimitedUpTo(o, k) => r.attempts > k
         /\ r.sleeps = IF r.attempts = 1 THEN <<>>
                       ELSE IF r.attempts = 2 THEN <<20>>
                       ELSE <<20, 40>>
         /\ ~r.raised => /\ o[r.attempts].kind = "ok"
                         /\ r.text = o[r.attempts].text
                         /\ \A j \in 1..(r.attempts - 1) : o[j].kind # "ok"
         /\ RateLimitedUpTo(o, 3)
              => r.raised /\ r.error = "429" /\ r.attempts = 3

(* two rate-limit failures, then the third attempt returns a text *)
C14_Witness ==
  /\ last.op = "call"
  /\ RateLimitedUpTo(last.outcomes, 2)
  /\ last.outcomes[3].kind = "ok"
  /\ ~last.result.raised
  /\ last.result.sleeps = <<20, 40>>

(* C15: a failure of the model call that is not a rate-limit signal is      *)
(* raised on the attempt where it occurs, with no sleep after it and no     *)
(* further attempt, also on a retry after an earlier rate-limit failure.    *)
C15_OtherFailureImmediate ==
  last.op = "call"
  => \A k \in 1..3 :
       ( last.outcomes[k].kind = "error" /\ RateLimitedUpTo(last.outcomes, k - 1) )
       => /\ last.result.raised
          /\ last.result.error = "error"
          /\ last.result.attempts = k
          /\ Len(last.result.sleeps) = k - 1

(* a failure without "429" on the retry after a rate-limit failure *)
C15_Witness ==
  /\ last.op = "call"
  /\ last.outcomes[1].kind = "429"
  /\ last.outcomes[2].kind = "error"
  /\ last.outcomes[3].kind = "ok"
  /\ last.result.raised
  /\ last.result.attempts = 2

(* a response that is not a JSON object of the expected shape *)
Malformed(resp) == resp.kind \in {"malformed", "one_line_fence", "bad_shape"}

(* the responses with every malformed one replaced by an empty result list *)
WithoutMalformed(resps) ==
  [ b \in DOMAIN resps |-> IF Malformed(resps[b]) THEN LLMJson(<<>>) ELSE resps[b] ]

(* C16: a malformed model response never raises out of rank_contributions   *)
(* or filter_contributions_by_topics: its batch contributes no match, and   *)
(* rank_contributions still returns the valid matches of the other batches. *)
C16_MalformedNeverRaises ==
  /\ ( last.op = "filter" /\ last.result.called /\ Malformed(last.resp) )
       => ~last.result.raised /\ last.result.out = <<>>
  /\ ( /\ last.op = "rank"
       /\ last.result.client
       /\ \A b \in DOMAIN last.resps : last.resps[b].kind # "raise"
       /\ \E b \in DOMAIN last.resps : Malformed(last.resps[b]) )
       => /\ ~last.result.raised
          /\ last.result.out =
               rank_contributions(last.contributions, has_key,
                                  WithoutMalformed(last.resps),
                                  last.max_results).out

(* C17: rank_contributions with an empty contribution list, and             *)
(* filter_contributions_by_topics with an empty contribution list or an     *)
(* empty topic list, return [] without constructing a model client and      *)
(* without a model call, with or without a configured credential.           *)
C17_EmptyInputNoModel ==
  /\ ( last.op = "rank" /\ last.contributions = <<>> )
       => /\ ~last.result.raised
          /\ ~last.result.client
          /\ last.result.calls = 0
          /\ last.result.out = <<>>
  /\ ( last.op = "filter" /\ (last.contributions = <<>> \/ last.topics = <<>>) )
       => /\ ~last.result.raised
          /\ ~last.result.client
          /\ ~last.result.called
          /\ last.result.out = <<>>

(* the filter has been called with contributions and an empty topic list   *)
(* while no credential is configured                                       *)
C17_Witness ==
  /\ last.op = "filter"
  /\ last.contributions # <<>>
  /\ last.topics = <<>>
  /\ ~has_key


(* ---------------------------------------------------------------------- *)
(* Properties of the hybrid search                                         *)
(* ---------------------------------------------------------------------- *)
(* C18: when the keyword search answers, hybrid_search returns its results  *)
(* in non-increasing similarity order with ranks 1..len(results), and       *)
(* len(results) is at most num_results and at most keyword_matches.         *)
C18_HybridRanked ==
  ( last.op = "hybrid" /\ last.api.ok )
  => LET res == last.result.results
     IN  /\ ~last.result.raised
         /\ \A i, j \in 1..Len(res) : i < j => res[i].similarity >= res[j].similarity
         /\ \A i \in 1..Len(res) : res[i].rank = i
         /\ Len(res) <= last.num_results
         /\ Len(res) <= last.result.keyword_matches


(* ---------------------------------------------------------------------- *)
(* Properties of check_alerts without a credential                         *)
(* ---------------------------------------------------------------------- *)
(* C20: in a check_alerts run without a configured credential the filter    *)
(* is not called for any alert, with or without topics, and for every       *)
(* alert whose fetch returned contributions the notification is dispatched  *)
(* with all of them, in the order fetched.                                  *)
C20_NoCredentialNoFilter ==
  ( CheckRan /\ ~has_key )
  => \A i \in 1..Len(last.pre) :
       LET st == last.steps[i]
       IN  /\ ~st.filter_called
           /\ ~st.filter_raised
           /\ ( st.fetch_ok /\ st.fetched # <<>> )
                => /\ Len(st.mail) = 1
                   /\ st.mail[1].contributions = st.fetched

(* a run without credential in which an alert with topics got a fetch with *)
(* contributions                                                           *)
C20_Witness ==
  /\ CheckRan
  /\ ~has_key
  /\ \E i \in 1..Len(last.pre) :
       /\ last.pre[i].topics # <<>>
       /\ last.steps[i].fetched = <<C1st, C2nd>>
       /\ last.steps[i].mail # <<>>


(* ---------------------------------------------------------------------- *)
(* Properties of a check_alerts run that other calls interleave with       *)
(* ---------------------------------------------------------------------- *)
(* a list of alerts without its watermarks *)
WithoutWatermarks(alerts) ==
  [ i \in 1..Len(alerts) |-> [alerts[i] EXCEPT !.last_checked = 0] ]

(* C19: when a check_alerts run saves, the file holds the list the run      *)
(* loaded, with the run's watermarks, whatever create_alert, delete_alert   *)
(* and toggle_alert calls wrote between the load and the save: an alert     *)
(* created in between is gone, a deleted one is back, a toggle is undone.   *)
C19_StaleSaveLosesUpdate ==
  ( last.op = "check_end" /\ last.saved )
  => /\ file.exists
     /\ WithoutWatermarks(Stored) = WithoutWatermarks(last.loaded)
     /\ WithoutWatermarks(last.before) # WithoutWatermarks(last.loaded)
          => WithoutWatermarks(Stored) # WithoutWatermarks(last.before)

(* a run has saved, and the file held one more alert before the save than  *)
(* the run had loaded and than it holds now                                *)
C19_Witness ==
  /\ last.op = "check_end"
  /\ last.saved
  /\ Len(last.before) > Len(last.loaded)
  /\ Len(Stored) = Len(last.loaded)

(* a run has saved and brought back an alert deleted after the load *)
C19_DeletedReappears ==
  /\ last.op = "check_end"
  /\ last.saved
  /\ Len(last.before) < Len(last.loaded)
  /\ Len(Stored) = Len(last.loaded)

(* a run has saved and undone a toggle made after the load *)
C19_ToggleReverted ==
  /\ last.op = "check_end"
  /\ last.saved
  /\ Len(last.before) = Len(last.loaded)
  /\ \E i \in 1..Len(last.loaded) :
       /\ last.before[i].id = last.loaded[i].id
       /\ last.before[i].active # last.loaded[i].active
       /\ Stored[i].active = last.loaded[i].active

(* ---------------------------------------------------------------------- *)
(* Properties of the alert ids                                             *)
(* ---------------------------------------------------------------------- *)
(* C22: the id of a newly created alert is the number of alerts stored     *)
(* before the call plus one, whatever ids the stored alerts carry.         *)
C22_IdIsCountPlusOne ==
  (last.op = "create" /\ last.isnew) =>
    /\ Len(Stored) = Len(last.pre) + 1
    /\ Stored[Len(Stored)].id = Len(last.pre) + 1
    /\ \A i \in 1..Len(last.pre) : Stored[i] = last.pre[i]

(* C22 happens: after create A, create B, delete A, the store holds B      *)
(* alone with id 2, and the create of C has stored a second alert with     *)
(* id 2.                                                                   *)
C22_Witness ==
  /\ last.op = "create"
  /\ last.isnew
  /\ Len(last.pre) = 1
  /\ last.pre[1].id = 2
  /\ Len(Stored) = 2
  /\ Stored[1].id = 2
  /\ Stored[2].id = 2
  /\ ~SamePair(Stored[1], Stored[2])

(* ---------------------------------------------------------------------- *)
(* Properties of the failure handling of a check_alerts run                *)
(* ---------------------------------------------------------------------- *)
(* the fetch or the dispatch for the alert at position i threw *)
Thrown(i) ==
  /\ last.steps[i].fetch_called
  /\ \/ ~last.steps[i].fetch_ok
     \/ ~last.steps[i].send_ok

(* C28: an exception thrown by the fetch or by the dispatch for one alert   *)
(* ends the processing of that alert only: every other active alert of the  *)
(* run, the later ones included, is still fetched for, and every watermark  *)
(* that the run advanced for another alert is in the saved store.           *)
C28_ExceptionStaysWithAlert ==
  CheckRan =>
    \A i \in 1..Len(last.pre) :
      Thrown(i) =>
        /\ Stored[i] = last.pre[i]
        /\ \A j \in 1..Len(last.pre) :
             j # i =>
               /\ last.pre[j].active => last.steps[j].fetch_called
               /\ last.steps[j].advanced => (last.saved /\ Advanced(j))
               /\ (last.steps[j].fetch_ok /\ last.steps[j].send_ok)
                    => Advanced(j)

(* a run in which the dispatch for the first alert threw, and the alert     *)
(* after it was fetched for, notified and its new watermark saved           *)
C28_Witness ==
  /\ CheckRan
  /\ Len(last.pre) = 2
  /\ Thrown(1)
  /\ last.steps[1].fetch_ok
  /\ last.steps[1].mail # <<>>
  /\ Stored[1].last_checked = last.pre[1].last_checked
  /\ last.steps[2].mail # <<>>
  /\ last.saved
  /\ Advanced(2)
  /\ Stored[2].last_checked > last.pre[2].last_checked

(* ---------------------------------------------------------------------- *)
(* Properties of the batching of the relevance filter                      *)
(* ---------------------------------------------------------------------- *)
(* ceil(n / BATCH_SIZE) *)
CeilBatches(n) == (n + BATCH_SIZE - 1) \div BATCH_SIZE

(* the prompts list the contributions in consecutive batches of at most    *)
(* BATCH_SIZE, each numbered from 0                                        *)
BatchedPrompts(contributions, prompts) ==
  /\ Len(prompts) = CeilBatches(Len(contributions))
  /\ \A b \in 1..Len(prompts) :
       /\ Len(prompts[b]) <= BATCH_SIZE
       /\ \A k \in 1..Len(prompts[b]) :
            /\ prompts[b][k].speech = k - 1
            /\ (b - 1) * BATCH_SIZE + k <= Len(contributions)
            /\ prompts[b][k].contribution_id =
                 contributions[(b - 1) * BATCH_SIZE + k].contribution_id

(* C23: rank_contributions and filter_contributions_by_topics both split    *)
(* the contributions into consecutive batches of at most BATCH_SIZE (80 in  *)
(* the source) and submit each batch in a prompt of its own, numbered from  *)
(* 0: a call that goes through submits ceil(n / BATCH_SIZE) prompts, none   *)
(* of which lists more than BATCH_SIZE speeches.                            *)
C23_BothModesBatch ==
  /\ (last.op = "rank" /\ last.result.client /\ ~last.result.raised) =>
       BatchedPrompts(last.contributions, last.result.prompts)
  /\ (last.op = "filter" /\ last.result.called /\ ~last.result.raised) =>
       BatchedPrompts(last.contributions, last.result.prompts)

(* the ranking half of C23 alone *)
C23_RankBatches ==
  (last.op = "rank" /\ last.result.client /\ ~last.result.raised) =>
    BatchedPrompts(last.contributions, last.result.prompts)

(* C24: rank_contributions maps the index i that the model returned for     *)
(* batch b (counted from 0) to the contribution at position                 *)
(* BATCH_SIZE * b + i, pools the candidates batch after batch, within a     *)
(* batch in the order of the response, keeps the first max_results of the   *)
(* pool and gives them the ranks 1, 2, ... in that order.                   *)
C24_PooledInBatchOrder ==
  (last.op = "rank" /\ last.result.client /\ ~last.result.raised) =>
    LET c == last.contributions
        out == last.result.out
        SizeOf(b) == IF b * BATCH_SIZE <= Len(c) THEN BATCH_SIZE
                     ELSE Len(c) - (b - 1) * BATCH_SIZE
        places == { p \in (1..CeilBatches(Len(c))) \X (1..MaxList) :
                      /\ p[2] <= Len(last.resps[p[1]].matches)
                      /\ last.resps[p[1]].matches[p[2]].has_index
                      /\ last.resps[p[1]].matches[p[2]].speech_index >= 0
                      /\ last.resps[p[1]].matches[p[2]].speech_index < SizeOf(p[1]) }
        Before(p) == { q \in places : q[1] < p[1] \/ (q[1] = p[1] /\ q[2] < p[2]) }
    IN  /\ Len(out) <= last.max_results
        /\ Len(out) = IF Cardinality(places) < last.max_results
                      THEN Cardinality(places) ELSE last.max_results
        /\ \A r \in 1..Len(out) :
             /\ out[r].rank = r
             /\ \E p \in places :
                  /\ Cardinality(Before(p)) = r - 1
                  /\ out[r].contribution_id =
                       c[BATCH_SIZE * (p[1] - 1)
                         + last.resps[p[1]].matches[p[2]].speech_index + 1].contribution_id

(* a ranking over two batches: the first batch gives its speeches 1 and 0,  *)
(* the second its speech 0; the pool is cut to two and the output is the    *)
(* second and the first contribution, ranked 1 and 2                        *)
C24_Witness ==
  /\ last.op = "rank"
  /\ ~last.result.raised
  /\ last.contributions = <<Contribution("a"), Contribution("b"), Contribution("c")>>
  /\ last.resps = <<LLMJson(<<Item(1), Item(0)>>), LLMJson(<<Item(0)>>)>>
  /\ last.max_results = 2
  /\ last.result.out = << [rank |-> 1, contribution_id |-> "b"],
                          [rank |-> 2, contribution_id |-> "a"] >>

(* a ranking over two batches whose second batch gives its speech 0: the    *)
(* output names the third contribution                                      *)
C24_SecondBatchMapped ==
  /\ last.op = "rank"
  /\ ~last.result.raised
  /\ last.contributions = <<Contribution("a"), Contribution("b"), Contribution("c")>>
  /\ last.resps = <<LLMJson(<<Item(0)>>), LLMJson(<<Item(0)>>)>>
  /\ last.result.out = << [rank |-> 1, contribution_id |-> "a"],
                          [rank |-> 2, contribution_id |-> "c"] >>

(* ---------------------------------------------------------------------- *)
(* Properties of the hybrid search with an empty keyword pool              *)
(* ---------------------------------------------------------------------- *)
(* C27: when the keyword search has no contribution to answer with,         *)
(* hybrid_search returns keyword_matches = 0 and no results, and neither    *)
(* obtains the embedding model nor encodes anything.                        *)
C27_EmptyPoolNoEmbedding ==
  ( last.op = "hybrid" /\ last.api.ok /\ last.api.items = <<>> )
  => /\ ~last.result.raised
     /\ last.result.keyword_matches = 0
     /\ last.result.results = <<>>
     /\ ~last.result.encoded

(* the part of C27 that the code keeps: no call of hybrid_search with an    *)
(* empty keyword pool uses the embedding model                              *)
C27_NoEmbeddingOnly ==
  ( last.op = "hybrid" /\ last.api.ok /\ last.api.items = <<>> )
  => ~last.result.encoded

C21_TwoWords ==
  /\ last.op = "url"
  /\ last.debate_title = <<"a", " ", "B">>
  /\ last.sitting_date = <<"2024-01-16", "T", "00:00:00">>
  /\ last.calls[1].result.url[3] = <<"2024-01-16">>
  /\ last.calls[1].result.url[6] = <<"A", "B">>

(* ---------------------------------------------------------------------- *)
(* Properties of successive check_alerts runs                              *)
(* ---------------------------------------------------------------------- *)
(* the contributions of the notification sent for alert i in run r *)
NotifiedIn(r, i) ==
  IF last.runs[r].steps[i].mail = <<>> THEN {}
  ELSE Range(last.runs[r].steps[i].mail[1].contributions)

(* C30: across successive check_alerts runs a contribution is in at most    *)
(* one notification of an alert: when a run has notified the alert about a  *)
(* contribution and advanced its watermark, no later run fetches that       *)
(* contribution and notifies the alert about it again.                      *)
C30_NotifiedOnce ==
  (last.op = "poll") =>
    \A r1, r2 \in 1..Len(last.runs) :
      r1 < r2 =>
        \A i \in 1..Len(last.runs[r1].pre) :
          last.runs[r1].steps[i].advanced =>
            NotifiedIn(r1, i) \cap NotifiedIn(r2, i) = {}

(* the part of C30 that the code keeps: a run fetches no contribution of a  *)
(* day before the day of the alert's watermark                              *)
C30_WindowStartsAtWatermarkDay ==
  (last.op = "poll") =>
    \A r \in 1..Len(last.runs) :
      \A i \in 1..Len(last.runs[r].pre) :
        \A c \in Range(last.runs[r].steps[i].fetched) :
          SittingDay(c) >= DatePart(last.runs[r].pre[i].last_checked)

(* two runs on the same day, the second after the watermark was advanced:   *)
(* both notify the alert about the contribution of that day                 *)
C30_NotifiedTwice ==
  /\ last.op = "poll"
  /\ Len(last.runs) = 2
  /\ Len(last.runs[1].pre) = 1
  /\ last.runs[1].steps[1].advanced
  /\ last.runs[2].pre[1].last_checked = last.runs[1].started
  /\ last.runs[2].started > last.runs[1].started
  /\ C2nd \in NotifiedIn(1, 1)
  /\ C2nd \in NotifiedIn(2, 1)

(* ---------------------------------------------------------------------- *)
(* Properties of the entries and the collections of the vector index       *)
(* ---------------------------------------------------------------------- *)
(* the contributions of the list whose id the member's collection did not  *)
(* hold before the call                                                    *)
FreshOf(contributions, idx, member_id) ==
  LET Fresh(c) == c.contribution_id \notin StoredIds(idx, member_id)
  IN  SelectSeq(contributions, Fresh)

(* C25: index_contributions changes no entry that the collection already    *)
(* holds: every id stored before the call is stored after it with the same  *)
(* text, metadata and embedding, whatever text and metadata the list gives  *)
(* for that id, and the texts given to the model are those of the           *)
(* contributions whose id was not stored, and no others.                    *)
C25_ExistingEntryKept ==
  (last.op = "index") =>
    /\ \A cid \in StoredIds(last.pre, last.member_id) :
         /\ cid \in StoredIds(index, last.member_id)
         /\ index[collection_name(last.member_id)].docs[cid]
              = last.pre[collection_name(last.member_id)].docs[cid]
    /\ LET fresh == FreshOf(last.contributions, last.pre, last.member_id)
       IN  /\ Len(last.encoded) = Len(fresh)
           /\ \A k \in 1..Len(fresh) : last.encoded[k] = fresh[k].text

(* "a" was indexed with its first text; a call with the revised "a" and a   *)
(* new contribution has added the new one, embedded its text only, and the  *)
(* entry of "a" is as first indexed                                         *)
C25_Witness ==
  /\ last.op = "index"
  /\ "a" \in StoredIds(last.pre, last.member_id)
  /\ last.pre[collection_name(last.member_id)].docs["a"].document = "t1"
  /\ last.contributions = <<Revised, Speech("b", "t1", "d1")>>
  /\ "b" \notin StoredIds(last.pre, last.member_id)
  /\ last.ret = 1
  /\ last.encoded = <<"t1">>
  /\ index[collection_name(last.member_id)].docs["a"] = Entry(Speech("a", "t1", "d1"))
  /\ index[collection_name(last.member_id)].docs["b"] = Entry(Speech("b", "t1", "d1"))

(* C26: index_contributions and delete_member_index for one member leave    *)
(* the ids, the indexed_count and the query results of every other member   *)
(* as they were, also when both members hold the same contribution id.      *)
C26_MembersIndependent ==
  (last.op \in {"index", "unindex"}) =>
    \A m \in Members \ {last.member_id} :
      /\ StoredIds(index, m) = StoredIds(last.pre, m)
      /\ get_index_stats(index, m) = get_index_stats(last.pre, m)
      /\ \A top_k \in 1..MaxTopK :
           /\ NResults(index, m, top_k) = NResults(last.pre, m, top_k)
           /\ \A nearest \in Nearest(last.pre[collection_name(m)],
                                     NResults(last.pre, m, top_k)) :
                semantic_query(index, m, top_k, nearest)
                  = semantic_query(last.pre, m, top_k, nearest)

(* member 1 holds "a" with its first text; "a" has been indexed under       *)
(* member 2 with the revised text, and both collections hold their own "a"  *)
C26_Witness ==
  /\ last.op = "index"
  /\ last.member_id = 2
  /\ last.contributions = <<Revised>>
  /\ last.ret = 1
  /\ "a" \in StoredIds(last.pre, 1)
  /\ index[collection_name(1)].docs["a"].document = "t1"
  /\ index[collection_name(2)].docs["a"].document = "t2"
  /\ get_index_stats(index, 1) = get_index_stats(last.pre, 1)

(* both members held "a"; the collection of member 1 has been deleted and   *)
(* member 2 still holds it                                                  *)
C26_DeletedOne ==
  /\ last.op = "unindex"
  /\ last.member_id = 1
  /\ last.ret
  /\ "a" \in StoredIds(last.pre, 1)
  /\ "a" \in StoredIds(last.pre, 2)
  /\ ~index[collection_name(1)].exists
  /\ "a" \in StoredIds(index, 2)

(* ---------------------------------------------------------------------- *)
(* Properties of the singletons                                            *)
(* ---------------------------------------------------------------------- *)
(* the calls of the module semantic_search and of hybrid_search *)
SingletonUsers ==
  {"index", "query", "stats", "unindex", "get_model", "get_chroma_client", "hybrid"}

(* C29: the embedding model and the vector-index client are constructed at  *)
(* most once: the first call of get_model (get_chroma_client), direct or    *)
(* through index_contributions, semantic_query, get_index_stats,            *)
(* delete_member_index or hybrid_search, constructs the instance, and       *)
(* every later call returns that instance.                                  *)
C29_ConstructedOnce ==
  /\ proc.model_built <= 1
  /\ proc.client_built <= 1
  /\ (last.op \in SingletonUsers) =>
       /\ last.got_model =>
            /\ proc.model = 1
            /\ proc.model_built = 1
            /\ last.before.model # 0 => proc.model = last.before.model
       /\ ~last.got_model =>
            /\ proc.model = last.before.model
            /\ proc.model_built = last.before.model_built
       /\ last.got_client =>
            /\ proc.client = 1
            /\ proc.client_built = 1
            /\ last.before.client # 0 => proc.client = last.before.client
       /\ ~last.got_client =>
            /\ proc.client = last.before.client
            /\ proc.client_built = last.before.client_built

(* a query that asked for the model and the client after both had been      *)
(* constructed by earlier calls, and got the same instances                 *)
C29_Witness ==
  /\ last.op = "query"
  /\ last.got_model
  /\ last.got_client
  /\ last.before.model = 1
  /\ last.before.client = 1
  /\ proc.model = 1
  /\ proc.client = 1
  /\ proc.model_built = 1
  /\ proc.client_built = 1

(* ---------------------------------------------------------------------- *)
(* Properties of the indices returned by the model                         *)
(* ---------------------------------------------------------------------- *)
(* the items of a list of matches whose index is present, not negative and *)
(* below size                                                              *)
UsableItems(matches, size) ==
  LET Usable(item) ==
        item.has_index /\ item.speech_index >= 0 /\ item.speech_index < size
  IN  SelectSeq(matches, Usable)

(* every response of the call parsed to a list of items whose index is an  *)
(* integer or missing                                                      *)
AllParsed(resps) == \A b \in DOMAIN resps : resps[b].kind = "json"

(* the size of batch b (counted from 1) of a list of n contributions *)
BatchSize(n, b) ==
  IF b * BATCH_SIZE <= n THEN BATCH_SIZE ELSE n - (b - 1) * BATCH_SIZE

(* C31: every entry that rank_contributions or                              *)
(* filter_contributions_by_topics returns stands for a contribution of the  *)
(* input list that the model named with an index present, not negative and  *)
(* below the size of the batch; an item whose index is missing, negative or *)
(* too large gives no entry and no error.                                   *)
C31_StrayIndexIgnored ==
  /\ (last.op = "filter" /\ last.result.called /\ last.resp.kind = "json") =>
       LET usable == UsableItems(last.resp.matches, Len(last.contributions))
       IN  /\ ~last.result.raised
           /\ Len(last.result.out) = Len(usable)
           /\ \A k \in 1..Len(usable) :
                last.result.out[k].contribution_id =
                  last.contributions[usable[k].speech_index + 1].contribution_id
  /\ (last.op = "rank" /\ last.result.client /\ AllParsed(last.resps)) =>
       /\ ~last.result.raised
       /\ \A r \in 1..Len(last.result.out) :
            \E b \in DOMAIN last.resps :
              \E k \in 1..Len(UsableItems(last.resps[b].matches,
                                          BatchSize(Len(last.contributions), b))) :
                last.result.out[r].contribution_id =
                  last.contributions[
                    (b - 1) * BATCH_SIZE
                    + UsableItems(last.resps[b].matches,
                                  BatchSize(Len(last.contributions), b))[k].speech_index
                    + 1].contribution_id

(* the filter was given two contributions and the model answered with a     *)
(* negative index, an item without index and the index 0: the output is the *)
(* first contribution alone                                                 *)
C31_Witness ==
  /\ last.op = "filter"
  /\ last.result.called
  /\ last.contributions = <<Contribution("a"), Contribution("b")>>
  /\ last.resp = LLMStrayIndexes
  /\ ~last.result.raised
  /\ last.result.out = <<[contribution_id |-> "a"]>>

(* the ranking of three contributions whose second batch, of one speech,    *)
(* answered with the index 2 and whose first answered with stray indexes:   *)
(* the output is the first contribution alone                               *)
C31_RankWitness ==
  /\ last.op = "rank"
  /\ last.contributions = <<Contribution("a"), Contribution("b"), Contribution("c")>>
  /\ last.resps = <<LLMStrayIndexes, LLMJson(<<Item(2)>>)>>
  /\ ~last.result.raised
  /\ last.result.out = <<[rank |-> 1, contribution_id |-> "a"]>>

(* C32: the output of rank_contributions names each contribution of the     *)
(* input list at most once, whatever indices the model returns, also when   *)
(* one response names the same speech twice.                                *)
C32_EachAtMostOnce ==
  (last.op = "rank" /\ ~last.result.raised /\ ~HasDuplicateIds(last.contributions)) =>
    \A r1, r2 \in 1..Len(last.result.out) :
      last.result.out[r1].contribution_id = last.result.out[r2].contribution_id
        => r1 = r2

(* what holds of C32: without a response that names a speech twice, the     *)
(* output names each contribution at most once                              *)
C32_OnceUnlessNamedTwice ==
  ( /\ last.op = "rank"
    /\ ~last.result.raised
    /\ ~HasDuplicateIds(last.contributions)
    /\ \A b \in DOMAIN last.resps : last.resps[b] # LLMSameTwice ) =>
    \A r1, r2 \in 1..Len(last.result.out) :
      last.result.out[r1].contribution_id = last.result.out[r2].contribution_id
        => r1 = r2

(* ---------------------------------------------------------------------- *)
(* Properties of delete_alert                                              *)
(* ---------------------------------------------------------------------- *)
(* the positions of the list whose alert has the id *)
WithId(alerts, alert_id) == { i \in 1..Len(alerts) : alerts[i].id = alert_id }

(* C33: after any sequence of create_alert and delete_alert calls,          *)
(* delete_alert(alert_id) removes exactly one record and returns True when  *)
(* an alert with that id is stored, leaving every other stored alert as it  *)
(* was, and returns False without writing the store when none has that id.  *)
C33_DeleteRemovesOne ==
  (last.op = "delete") =>
    IF WithId(last.pre, last.alert_id) # {}
    THEN /\ last.ret
         /\ Len(Stored) = Len(last.pre) - 1
         /\ \E k \in WithId(last.pre, last.alert_id) :
              Stored = [ i \in 1..(Len(last.pre) - 1) |->
                           IF i < k THEN last.pre[i] ELSE last.pre[i + 1] ]
    ELSE /\ ~last.ret
         /\ Stored = last.pre

(* what holds of C33: delete_alert removes every record with the id and no  *)
(* other, keeps the order of the rest, and returns whether it removed any   *)
C33_DeleteRemovesAllWithId ==
  (last.op = "delete") =>
    /\ last.ret = (WithId(last.pre, last.alert_id) # {})
    /\ Len(Stored) = Len(last.pre) - Cardinality(WithId(last.pre, last.alert_id))
    /\ \A i \in 1..Len(Stored) : Stored[i].id # last.alert_id
    /\ \A i \in 1..Len(last.pre) :
         last.pre[i].id # last.alert_id =>
           \E j \in 1..Len(Stored) : Stored[j] = last.pre[i]

(* after create A, create B, delete A, create C the store held two alerts   *)
(* with id 2, and one delete_alert(2) has removed both                      *)
C33_BothRemoved ==
  /\ last.op = "delete"
  /\ last.alert_id = 2
  /\ Len(last.pre) = 2
  /\ last.pre[1].id = 2
  /\ last.pre[2].id = 2
  /\ last.ret
  /\ Stored = <<>>

(* ---------------------------------------------------------------------- *)
(* Properties of create_alert calls that interleave                        *)
(* ---------------------------------------------------------------------- *)
(* no two alerts of the list have the same (member_id, email) pair *)
PairsUnique(alerts) ==
  \A i, j \in 1..Len(alerts) : SamePair(alerts[i], alerts[j]) => i = j

(* C34: when create_alert calls, for the same pair or for different pairs,  *)
(* and check_alerts runs interleave their loads and saves in any order, no  *)
(* file state that is written holds two alerts with the same (member_id,    *)
(* email) pair.                                                             *)
C34_UniquePairInterleaved ==
  /\ PairsUnique(Stored)
  /\ \A s \in Sessions : PairsUnique(creating[s].alerts)
  /\ PairsUnique(run.alerts)

(* two create_alert calls for the same pair both loaded the empty list; one *)
(* saved, and the other has saved after it: the file holds the pair once    *)
C34_Witness ==
  /\ last.op = "create_end"
  /\ last.isnew
  /\ last.loaded = <<>>
  /\ Len(last.before) = 1
  /\ last.before[1].member_id = last.member_id
  /\ last.before[1].email = last.email
  /\ Len(Stored) = 1
  /\ Stored[1].member_id = last.member_id

(* a check_alerts run has saved the list it loaded after a create_alert     *)
(* call, begun before the load, had saved its record                        *)
C34_CheckAfterCreate ==
  /\ last.op = "check_end"
  /\ last.saved
  /\ Len(last.before) = 2
  /\ Len(last.loaded) = 1
  /\ Len(Stored) = 1

====
